---- MODULE Spec2Model ----
(***************************************************************************)
(* A model of gitpulse/agentpulse: the recommender (agent.rs), the status  *)
(* cache and the scan orchestrator (monitor.rs), the action executor       *)
(* (actions.rs), the TUI event loop (main.rs), the repository scanner      *)
(* (scanner.rs), the git probe (git.rs), the provider collector            *)
(* (collectors/ai_mcp.rs) and the dashboard builder (dashboard/builder.rs).*)
(*                                                                         *)
(* Several specifications share the variables below; each one leaves the   *)
(* variables of the other parts at their idle values.                      *)
(*   SpecRecommend  agent::recommend / recommended_action_kind             *)
(*   SpecCacheHit   monitor::cache_hit on one cache entry                  *)
(*   SpecAction     actions::run_action tasks and their two channels       *)
(*   SpecScan       monitor::scan_all called again and again on one cache  *)
(*   SpecBatch      the batch loop of one scan_all                         *)
(*   Spec           main::event_loop with the tasks it spawns              *)
(*   SpecFindRepos  scanner::find_repos on a small directory tree          *)
(*   SpecProbe      git::check_repo_status over the outcomes of its queries*)
(*   SpecGitignore  actions::append_env_pattern_to_gitignore, repeated     *)
(*   SpecSort       the collection and final sort of monitor::scan_all     *)
(*   SpecProviderCache    ai_mcp::fetch_live_data_cached, several callers  *)
(*   SpecCollectProvider  ai_mcp::collect_provider                         *)
(*   SpecDedupe     builder::dedupe_alerts                                 *)
(*   SpecActionable the places that count or flag actionable repositories  *)
(*   SpecRunAction  actions::run_action, one action from start to finish   *)
(*   SpecStaleAfter monitor::stale_after and the expiry of a cache entry   *)
(*   SpecRecommendPair  agent::recommend on two statuses                   *)
(*   SpecPagedWalk  the paged usage and cost walks of collectors/ai_mcp.rs *)
(*   SpecScanAll    monitor::scan_all, one call with its probe tasks       *)
(*   SpecSelection  the selection of the App under keys, sections and scans*)
(***************************************************************************)
EXTENDS Integers, Sequences, FiniteSets, TLC

VARIABLES
    fn_pc,          \* pure-function harness: "input" before the call, "done" after
    fn_in,          \* the arguments of the call
    fn_out,         \* the value returned
    tasks,          \* the tasks spawned by run_action, by task id
    notif_ch,       \* the notification channel (notif_tx -> notif_rx), FIFO
    completion_ch,  \* the completion channel (completion_tx -> its receiver), FIFO
    commits,        \* the git_commit tasks: how many were spawned, and how many
                    \* are before their first and before their second send
    now,            \* the clock (Instant::now), in seconds
    fs,             \* the files of each repository the scan looks at
    scan_seq,       \* how many scans were started so far
    scan_tasks,     \* the scan_all invocations, by number
    batch,          \* the batch loop of one scan_all, by counts
    current_cache,  \* event_loop's current_cache
    cache_ch,       \* cache_tx -> cache_rx, FIFO
    scan_ch,        \* scan_tx -> scan_rx, FIFO
    loop_pc,        \* where the event loop stands in its body
    app,            \* the App
    last_refresh,   \* event_loop's last_refresh
    commands,       \* history: the git commands started by key handlers
    provider_cache, \* PROVIDER_API_CACHE: the memoized live result of each provider
    callers,        \* the threads collecting provider usage, by thread id
    fetches         \* history: the live fetches started, in order

pureVars == <<fn_pc, fn_in, fn_out>>
actVars == <<tasks, notif_ch, completion_ch, commits>>
scanVars == <<now, fs, scan_seq, scan_tasks, batch>>
provVars == <<provider_cache, callers, fetches>>
loopVars == <<current_cache, cache_ch, scan_ch, loop_pc, app, last_refresh, commands,
              provVars>>
vars ==
    <<fn_pc, fn_in, fn_out, tasks, notif_ch, completion_ch, commits,
      now, fs, scan_seq, scan_tasks, batch,
      current_cache, cache_ch, scan_ch, loop_pc, app, last_refresh, commands,
      provider_cache, callers, fetches>>

None == "None"

Max2(a, b) == IF a >= b THEN a ELSE b
Min2(a, b) == IF a <= b THEN a ELSE b

PureIdle == fn_pc = "idle" /\ fn_in = None /\ fn_out = None
NoCommits == [spawned |-> 0, running |-> 0, notified |-> 0]
ActIdle == tasks = <<>> /\ notif_ch = <<>> /\ completion_ch = <<>> /\ commits = NoCommits
ScanIdle ==
    /\ now = 0 /\ fs = <<>> /\ scan_seq = 0 /\ scan_tasks = <<>> /\ batch = None
ProvIdle == provider_cache = <<>> /\ callers = <<>> /\ fetches = <<>>

LoopIdle ==
    /\ current_cache = <<>> /\ cache_ch = <<>> /\ scan_ch = <<>> /\ loop_pc = "idle" /\ app = None
    /\ last_refresh = 0 /\ commands = {}
    /\ ProvIdle

(***************************************************************************)
(* git.rs: RepoStatus                                                      *)
(***************************************************************************)
\* Largest count a status field takes in the model.
MaxCount == 2

\* The statuses check_repo_status builds: is_detached is computed as
\* branch == "HEAD" (get_branch), and get_remote_counts returns (0, 0, false)
\* when there is no remote.
RepoStatus ==
    {s \in [branch : {"main", "HEAD", "unknown"},
            uncommitted_count : 0..MaxCount,
            unpushed_count : 0..MaxCount,
            behind_count : 0..MaxCount,
            stash_count : 0..MaxCount,
            has_remote : BOOLEAN,
            is_detached : BOOLEAN] :
        /\ s.is_detached = (s.branch = "HEAD")
        /\ (~s.has_remote => s.unpushed_count = 0 /\ s.behind_count = 0)}

\* RepoStatus::default() (derive(Default)): empty branch, zero counts, false flags.
RepoStatusDefault ==
    [branch |-> "", uncommitted_count |-> 0, unpushed_count |-> 0,
     behind_count |-> 0, stash_count |-> 0, has_remote |-> FALSE,
     is_detached |-> FALSE]

(***************************************************************************)
(* agent.rs: the recommender                                               *)
(***************************************************************************)
Recommendation(priority, short_action) ==
    [priority |-> priority, short_action |-> short_action]

\* recommend grading uncommitted work by the number of files.
recommend_priority_by_count(status) ==
    IF status.is_detached THEN Recommendation("Critical", "reattach")
    ELSE IF status.behind_count > 0 /\ status.uncommitted_count > 0
        THEN Recommendation("Critical", "commit+rebase")
    ELSE IF status.behind_count > 0 /\ status.unpushed_count > 0
        THEN Recommendation("High", "rebase+push")
    ELSE IF status.behind_count > 0 THEN Recommendation("High", "pull")
    ELSE IF status.uncommitted_count > 0 /\ status.unpushed_count > 0
        THEN Recommendation("High", "commit+push")
    ELSE IF status.uncommitted_count > 0
        THEN Recommendation(IF status.uncommitted_count > 1 THEN "High" ELSE "Medium",
                            "commit")
    ELSE IF status.unpushed_count > 0 THEN Recommendation("Medium", "push")
    ELSE IF status.stash_count > 0 THEN Recommendation("Low", "review stash")
    ELSE IF ~status.has_remote THEN Recommendation("Low", "set remote")
    ELSE Recommendation("Idle", "noop")

recommend_swapped(status) ==
    IF status.is_detached THEN Recommendation("Critical", "reattach")
    ELSE IF status.behind_count > 0 /\ status.unpushed_count > 0
        THEN Recommendation("High", "rebase+push")
    ELSE IF status.behind_count > 0 /\ status.uncommitted_count > 0
        THEN Recommendation("Critical", "commit+rebase")
    ELSE IF status.behind_count > 0 THEN Recommendation("High", "pull")
    ELSE IF status.uncommitted_count > 0 /\ status.unpushed_count > 0
        THEN Recommendation("High", "commit+push")
    ELSE IF status.uncommitted_count > 0 THEN Recommendation("Medium", "commit")
    ELSE IF status.unpushed_count > 0 THEN Recommendation("Medium", "push")
    ELSE IF status.stash_count > 0 THEN Recommendation("Low", "review stash")
    ELSE IF ~status.has_remote THEN Recommendation("Low", "set remote")
    ELSE Recommendation("Idle", "noop")

\* recommend: a chain of early returns, the first condition that holds wins.
recommend(status) ==
    IF status.is_detached THEN Recommendation("Critical", "reattach")
    ELSE IF status.behind_count > 0 /\ status.uncommitted_count > 0
        THEN Recommendation("Critical", "commit+rebase")
    ELSE IF status.behind_count > 0 /\ status.unpushed_count > 0
        THEN Recommendation("High", "rebase+push")
    ELSE IF status.behind_count > 0 THEN Recommendation("High", "pull")
    ELSE IF status.uncommitted_count > 0 /\ status.unpushed_count > 0
        THEN Recommendation("High", "commit+push")
    ELSE IF status.uncommitted_count > 0 THEN Recommendation("Medium", "commit")
    ELSE IF status.unpushed_count > 0 THEN Recommendation("Medium", "push")
    ELSE IF status.stash_count > 0 THEN Recommendation("Low", "review stash")
    ELSE IF ~status.has_remote THEN Recommendation("Low", "set remote")
    ELSE Recommendation("Idle", "noop")

\* Option<ActionKind>::None
NoAction == [type |-> "None", arg |-> ""]

\* recommended_action_kind: the same chain, returning Option<ActionKind>.  The
\* repo_path of every variant is the repo's own path and is left out here.
recommended_action_kind(status) ==
    IF status.is_detached
        THEN [type |-> "GitSwitchCreate", arg |-> "rescue-work"]
    ELSE IF status.behind_count > 0 /\ status.uncommitted_count > 0
        THEN [type |-> "GitAddCommitPullRebase", arg |-> "wip"]
    ELSE IF status.behind_count > 0 /\ status.unpushed_count > 0
        THEN [type |-> "GitPullRebasePush", arg |-> ""]
    ELSE IF status.behind_count > 0 THEN [type |-> "GitPullRebase", arg |-> ""]
    ELSE IF status.uncommitted_count > 0 /\ status.unpushed_count > 0
        THEN [type |-> "GitAddCommitPush", arg |-> "wip"]
    ELSE IF status.uncommitted_count > 0
        THEN [type |-> "GitAddCommit", arg |-> "wip"]
    ELSE IF status.unpushed_count > 0 THEN [type |-> "GitPush", arg |-> ""]
    ELSE IF status.stash_count > 0 THEN [type |-> "GitStashList", arg |-> ""]
    ELSE IF ~status.has_remote THEN [type |-> "GitRemoteList", arg |-> ""]
    ELSE NoAction

\* agent::needs_attention
agent_needs_attention(status) == recommend(status).priority # "Idle"

(***************************************************************************)
(* SpecRecommend: recommend and recommended_action_kind applied to every   *)
(* RepoStatus of the bounded set.                                          *)
(***************************************************************************)
InitRecommend ==
    /\ ActIdle
    /\ ScanIdle
    /\ LoopIdle
    /\ fn_pc = "input"
    /\ fn_in \in RepoStatus
    /\ fn_out = None

CallRecommend ==
    /\ fn_pc = "input"
    /\ fn_pc' = "done"
    /\ fn_out' = [rec |-> recommend(fn_in), kind |-> recommended_action_kind(fn_in)]
    /\ UNCHANGED <<fn_in, actVars, scanVars, loopVars>>

NextRecommend == CallRecommend

SpecRecommend == InitRecommend /\ [][NextRecommend]_vars

\* The decision table of the specification, as data: condition, priority, action.
DecisionTable(s) ==
    << <<s.is_detached, "Critical", [type |-> "GitSwitchCreate", arg |-> "rescue-work"]>>,
       <<s.behind_count > 0 /\ s.uncommitted_count > 0, "Critical",
            [type |-> "GitAddCommitPullRebase", arg |-> "wip"]>>,
       <<s.behind_count > 0 /\ s.unpushed_count > 0, "High",
            [type |-> "GitPullRebasePush", arg |-> ""]>>,
       <<s.behind_count > 0, "High", [type |-> "GitPullRebase", arg |-> ""]>>,
       <<s.uncommitted_count > 0 /\ s.unpushed_count > 0, "High",
            [type |-> "GitAddCommitPush", arg |-> "wip"]>>,
       <<s.uncommitted_count > 0, "Medium", [type |-> "GitAddCommit", arg |-> "wip"]>>,
       <<s.unpushed_count > 0, "Medium", [type |-> "GitPush", arg |-> ""]>>,
       <<s.stash_count > 0, "Low", [type |-> "GitStashList", arg |-> ""]>>,
       <<~s.has_remote, "Low", [type |-> "GitRemoteList", arg |-> ""]>>,
       <<TRUE, "Idle", NoAction>> >>

FirstRow(s) ==
    CHOOSE i \in 1..Len(DecisionTable(s)) :
        /\ DecisionTable(s)[i][1]
        /\ \A j \in 1..(i - 1) : ~DecisionTable(s)[j][1]

\* C7: for every RepoStatus, recommend returns the priority and
\* recommended_action_kind the action of the first row of the decision table
\* whose condition holds.
C7_FirstMatch ==
    fn_pc = "done" =>
        /\ fn_out.rec.priority = DecisionTable(fn_in)[FirstRow(fn_in)][2]
        /\ fn_out.kind = DecisionTable(fn_in)[FirstRow(fn_in)][3]

\* A status that matches several rows (behind, uncommitted and unpushed): row 2 wins.
C7_Witness ==
    /\ fn_pc = "done"
    /\ ~fn_in.is_detached
    /\ fn_in.behind_count > 0 /\ fn_in.uncommitted_count > 0 /\ fn_in.unpushed_count > 0
    /\ fn_out.rec.priority = "Critical"
    /\ fn_out.kind.type = "GitAddCommitPullRebase"

(***************************************************************************)
(* SpecRecommendPair: recommend applied to two statuses, to compare the    *)
(* rows they match and the recommendations they get.                       *)
(***************************************************************************)
InitRecommendPair ==
    /\ ActIdle
    /\ ScanIdle
    /\ LoopIdle
    /\ fn_pc = "input"
    /\ fn_in \in RepoStatus \X RepoStatus
    /\ fn_out = None

CallRecommendPair ==
    /\ fn_pc = "input"
    /\ fn_pc' = "done"
    /\ fn_out' = <<recommend(fn_in[1]), recommend(fn_in[2])>>
    /\ UNCHANGED <<fn_in, actVars, scanVars, loopVars>>

NextRecommendPair == CallRecommendPair

SpecRecommendPair == InitRecommendPair /\ [][NextRecommendPair]_vars

\* C23: the evaluation of the decision table in row order is deterministic,
\* and two statuses that match different rows never get the same priority.
C23_PriorityInjective ==
    fn_pc = "done" =>
        /\ fn_in[1] = fn_in[2] => fn_out[1] = fn_out[2]
        /\ FirstRow(fn_in[1]) # FirstRow(fn_in[2]) =>
                fn_out[1].priority # fn_out[2].priority

\* C23, amended: the evaluation is deterministic and the priority is a
\* function of the matched row (statuses matching the same row get the same
\* priority); statuses matching different rows may get the same priority, but
\* never the same recommended action.
C23_PriorityFunctionOfRow ==
    fn_pc = "done" =>
        /\ fn_in[1] = fn_in[2] => fn_out[1] = fn_out[2]
        /\ FirstRow(fn_in[1]) = FirstRow(fn_in[2]) =>
                fn_out[1].priority = fn_out[2].priority
        /\ FirstRow(fn_in[1]) # FirstRow(fn_in[2]) =>
                fn_out[1].short_action # fn_out[2].short_action

\* A detached repository (row 1) and one that is behind with local changes
\* (row 2): two rows, both Critical, two different actions.
C23_Witness ==
    /\ fn_pc = "done"
    /\ FirstRow(fn_in[1]) = 1
    /\ FirstRow(fn_in[2]) = 2
    /\ fn_out[1].priority = "Critical"
    /\ fn_out[2].priority = "Critical"
    /\ fn_out[1].short_action # fn_out[2].short_action

(***************************************************************************)
(* monitor.rs: the status cache                                            *)
(*                                                                         *)
(* Option<T> is a sequence: <<>> is None and <<x>> is Some(x).  Instants   *)
(* and Durations are whole seconds.                                        *)
(***************************************************************************)
NoneV == <<>>
Some(x) == <<x>>

\* u64::MAX scaled to the integers TLC computes with.
U64_MAX == 2147483647

\* u64::wrapping_mul(x, 2): the doubling that wraps around instead.
wrapping_mul2(x) == IF x > U64_MAX \div 2 THEN 2 * (x - U64_MAX \div 2 - 1) ELSE 2 * x

\* u64::saturating_mul(x, 2)
saturating_mul2(x) == IF x > U64_MAX \div 2 THEN U64_MAX ELSE 2 * x

\* Ord::clamp
clamp(x, lo, hi) == IF x < lo THEN lo ELSE IF x > hi THEN hi ELSE x

\* stale_after: the cache TTL, in seconds.
stale_after(refresh_interval_secs) ==
    clamp(saturating_mul2(refresh_interval_secs), 6, 30)

\* The files of one repository that the cache looks at: whether the git
\* directory resolves (resolve_git_dir) and the mtime (Option) of index, HEAD,
\* FETCH_HEAD, the newest file under refs/remotes, and packed-refs.
\* read_cache_signals: None when the git directory does not resolve; the
\* remote-refs signal falls back to packed-refs (Option::or_else).
read_cache_signals(repo_fs) ==
    IF ~repo_fs.git_dir THEN NoneV
    ELSE Some([index_mtime |-> repo_fs.index,
               head_mtime |-> repo_fs.head,
               fetch_head_mtime |-> repo_fs.fetch_head,
               remote_refs_mtime |->
                   IF repo_fs.refs_remotes # NoneV THEN repo_fs.refs_remotes
                   ELSE repo_fs.packed_refs])

CacheEntry(signals, checked_at, status) ==
    [signals |-> signals, checked_at |-> checked_at, status |-> status]

\* cache_hit with the age test off by one (< instead of <=).
cache_hit_strict_age(entry, signals, max_age, instant) ==
    IF signals = NoneV THEN NoneV
    ELSE IF entry = NoneV THEN NoneV
    ELSE IF instant - entry[1].checked_at < max_age /\ entry[1].signals = signals[1]
        THEN Some(entry[1].status)
    ELSE NoneV

\* cache_hit comparing only the index mtime, as its doc comment describes.
cache_hit_index_only(entry, signals, max_age, instant) ==
    IF signals = NoneV THEN NoneV
    ELSE IF entry = NoneV THEN NoneV
    ELSE IF /\ instant - entry[1].checked_at <= max_age
            /\ entry[1].signals.index_mtime = signals[1].index_mtime
        THEN Some(entry[1].status)
    ELSE NoneV

\* cache_hit(path, cache, max_age): entry is cache.get(path), signals is
\* read_cache_signals(path), now is the Instant at which elapsed() is taken.
\* The two `?` return None in the order signals, entry.
cache_hit(entry, signals, max_age, instant) ==
    IF signals = NoneV THEN NoneV
    ELSE IF entry = NoneV THEN NoneV
    ELSE IF instant - entry[1].checked_at <= max_age /\ entry[1].signals = signals[1]
        THEN Some(entry[1].status)
    ELSE NoneV

(***************************************************************************)
(* SpecCacheHit: cache_hit on every combination of repository files, cache *)
(* entry, age and TTL of the bounded sets.                                 *)
(***************************************************************************)
\* The latest Instant of a cache_hit call.
MaxNow == 31

\* Three mtime values give every pattern of equal, different and missing.
FreshMtimes == {NoneV, Some(1), Some(2)}
StoredMtimes == {NoneV, Some(1)}

RepoFiles ==
    [git_dir : {TRUE}, index : FreshMtimes, head : FreshMtimes,
     fetch_head : FreshMtimes, refs_remotes : FreshMtimes, packed_refs : StoredMtimes]
    \cup [git_dir : {FALSE}, index : {NoneV}, head : {NoneV},
          fetch_head : {NoneV}, refs_remotes : {NoneV}, packed_refs : {NoneV}]

StoredSignals ==
    [index_mtime : StoredMtimes, head_mtime : StoredMtimes,
     fetch_head_mtime : StoredMtimes, remote_refs_mtime : StoredMtimes]

\* refresh_interval_secs of the configurations tried: TTL 6 and TTL 30.
RefreshIntervals == {1, 60}

\* The status held by the entry.
SomeStatus ==
    [branch |-> "main", uncommitted_count |-> 1, unpushed_count |-> 0,
     behind_count |-> 0, stash_count |-> 0, has_remote |-> TRUE,
     is_detached |-> FALSE]

InitCacheHit ==
    /\ ActIdle
    /\ ScanIdle
    /\ LoopIdle
    /\ fn_pc = "input"
    /\ fn_out = None
    /\ \E f \in RepoFiles, r \in RefreshIntervals, n \in 0..MaxNow :
        \E e \in {NoneV} \cup {Some(CacheEntry(sg, 0, SomeStatus)) : sg \in StoredSignals} :
            fn_in = [repo_fs |-> f, entry |-> e, refresh_interval_secs |-> r, now |-> n]

CallCacheHit ==
    /\ fn_pc = "input"
    /\ fn_pc' = "done"
    /\ fn_out' = cache_hit(fn_in.entry, read_cache_signals(fn_in.repo_fs),
                           stale_after(fn_in.refresh_interval_secs), fn_in.now)
    /\ UNCHANGED <<fn_in, actVars, scanVars, loopVars>>

NextCacheHit == CallCacheHit

SpecCacheHit == InitCacheHit /\ [][NextCacheHit]_vars

\* The remote-refs signal as the specification describes it: the newest file
\* under refs/remotes, or the packed-refs file.
FreshSignalsEqual(f, sg) ==
    /\ f.git_dir
    /\ f.index = sg.index_mtime
    /\ f.head = sg.head_mtime
    /\ f.fetch_head = sg.fetch_head_mtime
    /\ \/ f.refs_remotes # NoneV /\ f.refs_remotes = sg.remote_refs_mtime
       \/ f.refs_remotes = NoneV /\ f.packed_refs = sg.remote_refs_mtime

Ttl(r) == IF 2 * r < 6 THEN 6 ELSE IF 2 * r > 30 THEN 30 ELSE 2 * r

StaleIntervals ==
    {0, 1, 2, 3, 4, 10, 14, 15, 16, 60,
     U64_MAX \div 2, U64_MAX \div 2 + 1, U64_MAX - 1, U64_MAX}

UnchangedSignals ==
    [index_mtime |-> Some(1), head_mtime |-> Some(1),
     fetch_head_mtime |-> NoneV, remote_refs_mtime |-> NoneV]

InitStaleAfter ==
    /\ ActIdle
    /\ ScanIdle
    /\ LoopIdle
    /\ fn_pc = "input"
    /\ fn_out = None
    /\ fn_in \in [refresh_interval_secs : StaleIntervals, age : 0..MaxNow]

\* scan_all's cache_hit(path, cache, stale_after(config.refresh_interval_secs))
\* on an entry checked at 0, age seconds later, with the signals unchanged.
CallStaleAfter ==
    /\ fn_pc = "input"
    /\ fn_pc' = "done"
    /\ fn_out' = [ttl |-> stale_after(fn_in.refresh_interval_secs),
                  hit |-> cache_hit(Some(CacheEntry(UnchangedSignals, 0, SomeStatus)),
                                    Some(UnchangedSignals),
                                    stale_after(fn_in.refresh_interval_secs),
                                    fn_in.age)]
    /\ UNCHANGED <<fn_in, actVars, scanVars, loopVars>>

NextStaleAfter == CallStaleAfter

SpecStaleAfter == InitStaleAfter /\ [][NextStaleAfter]_vars

\* clamp(2 * r, 6, 30) over the unbounded integers.
StatedTtl(r) == IF r < 3 THEN 6 ELSE IF r > 15 THEN 30 ELSE 2 * r

RepoPath == "/repo"

\* A second repository, to tell the path of one action from another's.
OtherRepoPath == "/other"

\* The variants of ActionKind that have a repo_path field.
RepoVariants ==
    {"GitStatus", "GitFetch", "GitPullRebase", "GitPush", "GitWorktreeList",
     "GitAddCommitPullRebase", "GitPullRebasePush", "GitAddCommitPush", "GitAddCommit",
     "GitStashList", "GitRemoteList", "GitSwitchCreate", "NpmInstallLockfile",
     "CargoGenerateLockfile", "UvLock", "PipCompileRequirements", "GoModTidy",
     "BundleLock", "IgnoreEnvFiles", "SeedEnvFromExample"}

\* The variants of ActionKind without one (pid, binary or message instead).
OtherVariants == {"KillProcess", "ProbeBinaryHelp", "CheckBinaryInPath", "ShowMessage"}

\* The ActionKind values run in SpecAction: the five composite actions, one
\* single-command action on a repository, and one action without one.
ActionKinds ==
    { [type |-> "GitStatus", repo_path |-> Some(RepoPath), files |-> <<>>],
      [type |-> "GitAddCommit", repo_path |-> Some(RepoPath), files |-> <<>>],
      [type |-> "GitAddCommitPush", repo_path |-> Some(RepoPath), files |-> <<>>],
      [type |-> "GitAddCommitPullRebase", repo_path |-> Some(RepoPath), files |-> <<>>],
      [type |-> "GitPullRebasePush", repo_path |-> Some(RepoPath), files |-> <<>>],
      [type |-> "IgnoreEnvFiles", repo_path |-> Some(RepoPath), files |-> <<>>],
      [type |-> "IgnoreEnvFiles", repo_path |-> Some(RepoPath), files |-> <<".env">>],
      [type |-> "ShowMessage", repo_path |-> NoneV, files |-> <<>>] }

\* Every variant of ActionKind, those with a repo_path on either repository.
\* A variant without a repo_path field has repo_path NoneV here.
AllActionKinds ==
    {[type |-> ty, repo_path |-> Some(path), files |-> <<>>] :
        ty \in RepoVariants, path \in {RepoPath, OtherRepoPath}}
    \cup {[type |-> "IgnoreEnvFiles", repo_path |-> Some(RepoPath), files |-> <<".env">>]}
    \cup {[type |-> ty, repo_path |-> NoneV, files |-> <<>>] : ty \in OtherVariants}

\* ActionKind::affected_repo_path reporting the repository of git actions only.
affected_repo_path_git_only(action) ==
    IF action.type \in {"GitStatus", "GitFetch", "GitPullRebase", "GitPush",
                        "GitWorktreeList", "GitAddCommitPullRebase", "GitPullRebasePush",
                        "GitAddCommitPush", "GitAddCommit", "GitStashList",
                        "GitRemoteList", "GitSwitchCreate"}
        THEN action.repo_path
    ELSE NoneV

\* ActionKind::affected_repo_path
affected_repo_path(action) ==
    IF action.type \in {"KillProcess", "ProbeBinaryHelp", "CheckBinaryInPath", "ShowMessage"}
        THEN NoneV
    ELSE action.repo_path

\* execute_action: the commands of each match arm, in program order.  Every
\* command but the last of an arm is followed by `?`; IgnoreEnvFiles returns
\* after the .gitignore append when files is empty.  The checks done in the
\* task itself (.env.example copied, binary looked up in PATH) are steps too:
\* they succeed or fail.  ShowMessage has none.
execute_action(action) ==
    CASE action.type = "GitStatus" -> <<"git status -sb">>
      [] action.type = "GitFetch" -> <<"git fetch --quiet">>
      [] action.type = "GitPullRebase" -> <<"git pull --rebase">>
      [] action.type = "GitPush" -> <<"git push">>
      [] action.type = "GitWorktreeList" -> <<"git worktree list">>
      [] action.type = "GitAddCommit" -> <<"git add -A", "git commit -m">>
      [] action.type = "GitAddCommitPush" -> <<"git add -A", "git commit -m", "git push">>
      [] action.type = "GitAddCommitPullRebase" ->
            <<"git add -A", "git commit -m", "git pull --rebase">>
      [] action.type = "GitPullRebasePush" -> <<"git pull --rebase", "git push">>
      [] action.type = "GitStashList" -> <<"git stash list">>
      [] action.type = "GitRemoteList" -> <<"git remote -v">>
      [] action.type = "GitSwitchCreate" -> <<"git switch -c">>
      [] action.type = "KillProcess" -> <<"kill">>
      [] action.type = "NpmInstallLockfile" -> <<"npm install --package-lock-only">>
      [] action.type = "CargoGenerateLockfile" -> <<"cargo generate-lockfile">>
      [] action.type = "UvLock" -> <<"uv lock">>
      [] action.type = "PipCompileRequirements" -> <<"pip-compile requirements.txt">>
      [] action.type = "GoModTidy" -> <<"go mod tidy">>
      [] action.type = "BundleLock" -> <<"bundle lock">>
      [] action.type = "IgnoreEnvFiles" ->
            IF action.files = <<>> THEN <<"append .env* to .gitignore">>
            ELSE <<"append .env* to .gitignore", "git rm --cached --">>
      [] action.type = "SeedEnvFromExample" -> <<"copy .env.example to .env">>
      [] action.type = "ProbeBinaryHelp" -> <<"binary --help">>
      [] action.type = "CheckBinaryInPath" -> <<"resolve_binary_in_path">>
      [] action.type = "ShowMessage" -> <<>>

\* The number of run_action calls.
MaxActions == 1

\* The number of git_commit calls.
MaxCommits == 1

\* mpsc::channel(1): the capacity of the channels handed to run_action.
ChannelCap == 1

TaskIds == 1..MaxActions

\* A command that failed is not followed by `?`: the next one runs anyway.
step_result_ignore_error(task, ok) ==
    LET steps == execute_action(task.action)
        k == task.step + 1
    IN  IF k < Len(steps)
            THEN [task EXCEPT !.step = k, !.in_flight = FALSE]
        ELSE IF ok
            THEN [task EXCEPT !.step = k, !.in_flight = FALSE, !.pc = "Succeeded",
                              !.result = <<"Ok", steps[k]>>]
        ELSE [task EXCEPT !.in_flight = FALSE, !.pc = "Failed",
                          !.result = <<"Err", steps[k]>>]

\* The command in flight has returned: `?` returns its error from
\* execute_action; the last command's result is the result of the action.
step_result(task, ok) ==
    LET steps == execute_action(task.action)
        k == task.step + 1
    IN  IF ~ok
            THEN [task EXCEPT !.in_flight = FALSE, !.pc = "Failed",
                              !.result = <<"Err", steps[k]>>]
        ELSE IF k < Len(steps)
            THEN [task EXCEPT !.step = k, !.in_flight = FALSE]
        ELSE [task EXCEPT !.step = k, !.in_flight = FALSE, !.pc = "Succeeded",
                          !.result = <<"Ok", steps[k]>>]

\* ActionCompletion { affected_repo_path } on its way to the receiver.  sent_at
\* and scans_started are history: when it was sent, and how many scans had
\* been started by then.
ActionCompletion(affected) ==
    [affected_repo_path |-> affected, sent_at |-> now, scans_started |-> scan_seq]

\* run_action dropping the completion of a failed action.
completion_messages_on_success_only(task) ==
    IF task.pc = "Succeeded" THEN <<ActionCompletion(task.affected)>> ELSE <<>>

\* What run_action sends on completion_tx after the notification: one
\* ActionCompletion, whatever the outcome.
completion_messages(task) == <<ActionCompletion(task.affected)>>

InitAction ==
    /\ PureIdle
    /\ ScanIdle
    /\ LoopIdle
    /\ tasks = [t \in TaskIds |-> [pc |-> "Idle"]]
    /\ notif_ch = <<>>
    /\ completion_ch = <<>>
    /\ commits = NoCommits

\* run_action(action, notif_tx, completion_tx): tokio::spawn of the task.
run_action(t, action) ==
    /\ tasks[t].pc = "Idle"
    /\ tasks' = [tasks EXCEPT ![t] =
            [pc |-> "Pending", action |-> action, affected |-> NoneV, step |-> 0,
             in_flight |-> FALSE, started |-> <<>>, outcomes |-> <<>>,
             result |-> <<>>, sent |-> <<>>]]
    /\ UNCHANGED <<notif_ch, completion_ch, commits, pureVars, scanVars, loopVars>>

\* The task is first polled: affected_repo_path is taken, execute_action entered.
TaskStart(t) ==
    /\ tasks[t].pc = "Pending"
    /\ tasks' = [tasks EXCEPT ![t].pc = "Running",
                              ![t].affected = affected_repo_path(tasks[t].action)]
    /\ UNCHANGED <<notif_ch, completion_ch, commits, pureVars, scanVars, loopVars>>

\* An arm without a command (ShowMessage) returns Ok(message) at once.
ExecuteInline(t) ==
    /\ tasks[t].pc = "Running"
    /\ execute_action(tasks[t].action) = <<>>
    /\ tasks' = [tasks EXCEPT ![t].pc = "Succeeded", ![t].result = <<"Ok", "message">>]
    /\ UNCHANGED <<notif_ch, completion_ch, commits, pureVars, scanVars, loopVars>>

\* run_cmd / run_cmd_owned / append_env_pattern_to_gitignore is started.
StartStep(t) ==
    /\ tasks[t].pc = "Running"
    /\ ~tasks[t].in_flight
    /\ execute_action(tasks[t].action) # <<>>
    /\ tasks' = [tasks EXCEPT ![t] =
            [tasks[t] EXCEPT !.in_flight = TRUE,
                !.started = Append(@, execute_action(tasks[t].action)[tasks[t].step + 1])]]
    /\ UNCHANGED <<notif_ch, completion_ch, commits, pureVars, scanVars, loopVars>>

\* The command returns, with success or with an error.
FinishStep(t, ok) ==
    /\ tasks[t].pc = "Running"
    /\ tasks[t].in_flight
    /\ tasks' = [tasks EXCEPT ![t] =
            [step_result(tasks[t], ok) EXCEPT !.outcomes = Append(@, ok)]]
    /\ UNCHANGED <<notif_ch, completion_ch, commits, pureVars, scanVars, loopVars>>

\* notif_tx.send(msg).await: waits while the channel is full.  The message is
\* the check mark or the cross; its first-line detail is left out.
SendNotif(t) ==
    /\ tasks[t].pc \in {"Succeeded", "Failed"}
    /\ tasks[t].sent = <<>>
    /\ Len(notif_ch) < ChannelCap
    /\ notif_ch' = Append(notif_ch, tasks[t].result[1])
    /\ tasks' = [tasks EXCEPT ![t].sent = <<"notif">>]
    /\ UNCHANGED <<completion_ch, commits, pureVars, scanVars, loopVars>>

\* completion_tx.send(ActionCompletion { affected_repo_path }).await: waits
\* while the channel is full.  The task ends after it and its locals are dropped.
SendCompletion(t) ==
    /\ tasks[t].pc \in {"Succeeded", "Failed"}
    /\ tasks[t].sent = <<"notif">>
    /\ Len(completion_ch) + Len(completion_messages(tasks[t])) <= ChannelCap
    /\ completion_ch' = completion_ch \o completion_messages(tasks[t])
    /\ tasks' = [tasks EXCEPT ![t] =
            [pc |-> "Reported",
             sent |-> tasks[t].sent \o
                [i \in 1..Len(completion_messages(tasks[t])) |-> "completion"]]]
    /\ UNCHANGED <<notif_ch, commits, pureVars, scanVars, loopVars>>

\* notif_rx.recv()
RecvNotif ==
    /\ notif_ch # <<>>
    /\ notif_ch' = Tail(notif_ch)
    /\ UNCHANGED <<tasks, completion_ch, commits, pureVars, scanVars, loopVars>>

\* done_rx.recv()
RecvCompletion ==
    /\ completion_ch # <<>>
    /\ completion_ch' = Tail(completion_ch)
    /\ UNCHANGED <<tasks, notif_ch, commits, pureVars, scanVars, loopVars>>

\* git_commit(repo_path, message, notif_tx, completion_tx): tokio::spawn of
\* a task on the same two channels.
git_commit ==
    /\ commits.spawned < MaxCommits
    /\ commits' = [commits EXCEPT !.spawned = @ + 1, !.running = @ + 1]
    /\ UNCHANGED <<tasks, notif_ch, completion_ch, pureVars, scanVars, loopVars>>

\* git commit has returned: notif_tx.send(msg).await
CommitSendNotif(cap) ==
    /\ commits.running > 0
    /\ Len(notif_ch) < cap
    /\ notif_ch' = Append(notif_ch, "commit")
    /\ commits' = [commits EXCEPT !.running = @ - 1, !.notified = @ + 1]
    /\ UNCHANGED <<tasks, completion_ch, pureVars, scanVars, loopVars>>

\* completion_tx.send(ActionCompletion { Some(path) }).await
CommitSendCompletion ==
    /\ commits.notified > 0
    /\ Len(completion_ch) < ChannelCap
    /\ completion_ch' = Append(completion_ch, ActionCompletion(Some(RepoPath)))
    /\ commits' = [commits EXCEPT !.notified = @ - 1]
    /\ UNCHANGED <<tasks, notif_ch, pureVars, scanVars, loopVars>>

NextAction ==
    \/ \E t \in TaskIds, a \in ActionKinds : run_action(t, a)
    \/ \E t \in TaskIds : TaskStart(t)
    \/ \E t \in TaskIds : ExecuteInline(t)
    \/ \E t \in TaskIds : StartStep(t)
    \/ \E t \in TaskIds, ok \in BOOLEAN : FinishStep(t, ok)
    \/ \E t \in TaskIds : SendNotif(t)
    \/ \E t \in TaskIds : SendCompletion(t)
    \/ git_commit
    \/ CommitSendNotif(ChannelCap)
    \/ CommitSendCompletion
    \/ RecvNotif
    \/ RecvCompletion

\* The runtime polls every ready task, and the receivers keep receiving.  A
\* command may never return: FinishStep is not fair.
FairAction ==
    /\ \A t \in TaskIds : WF_vars(TaskStart(t)) /\ WF_vars(StartStep(t))
    /\ \A t \in TaskIds : WF_vars(ExecuteInline(t))
    /\ \A t \in TaskIds : WF_vars(SendNotif(t)) /\ WF_vars(SendCompletion(t))
    /\ WF_vars(CommitSendNotif(ChannelCap)) /\ WF_vars(CommitSendCompletion)
    /\ WF_vars(RecvNotif) /\ WF_vars(RecvCompletion)

SpecAction == InitAction /\ [][NextAction]_vars /\ FairAction

\* The order of the states of one action: Pending, Running, then Succeeded or
\* Failed, then Reported.
StateOrder(from, to) ==
    \/ from = to
    \/ from = "Idle" /\ to = "Pending"
    \/ from = "Pending" /\ to = "Running"
    \/ from = "Running" /\ to \in {"Succeeded", "Failed"}
    \/ from \in {"Succeeded", "Failed"} /\ to = "Reported"

SentSoFar(t) ==
    CASE tasks[t].pc \in {"Pending", "Running"} -> tasks[t].sent = <<>>
      [] tasks[t].pc \in {"Succeeded", "Failed"} -> tasks[t].sent \in {<<>>, <<"notif">>}
      [] tasks[t].pc = "Reported" -> tasks[t].sent = <<"notif", "completion">>
      [] OTHER -> TRUE

InitRunAction ==
    /\ ActIdle
    /\ ScanIdle
    /\ LoopIdle
    /\ fn_pc = "input"
    /\ fn_in \in AllActionKinds
    /\ fn_out = [affected_repo_path |-> NoneV, result |-> NoneV, sent |-> <<>>]

\* let affected_repo_path = action.affected_repo_path().map(ToString::to_string)
RunActionTakePath ==
    /\ fn_pc = "input"
    /\ fn_pc' = "polled"
    /\ fn_out' = [fn_out EXCEPT !.affected_repo_path = affected_repo_path(fn_in)]
    /\ UNCHANGED <<fn_in, actVars, scanVars, loopVars>>

\* execute_action(&action).await: Ok or Err; an arm without a step is Ok.
RunActionExecute(ok) ==
    /\ fn_pc = "polled"
    /\ ok \/ execute_action(fn_in) # <<>>
    /\ fn_pc' = "executed"
    /\ fn_out' = [fn_out EXCEPT !.result = Some(IF ok THEN "Ok" ELSE "Err")]
    /\ UNCHANGED <<fn_in, actVars, scanVars, loopVars>>

\* notif_tx.send(msg).await
RunActionNotify ==
    /\ fn_pc = "executed"
    /\ fn_pc' = "notified"
    /\ fn_out' = [fn_out EXCEPT !.sent = Append(@, fn_out.result[1])]
    /\ UNCHANGED <<fn_in, actVars, scanVars, loopVars>>

\* completion_tx.send(ActionCompletion { affected_repo_path }).await
RunActionComplete ==
    /\ fn_pc = "notified"
    /\ fn_pc' = "done"
    /\ fn_out' = [fn_out EXCEPT
            !.sent = Append(@, ActionCompletion(fn_out.affected_repo_path))]
    /\ UNCHANGED <<fn_in, actVars, scanVars, loopVars>>

NextRunAction ==
    \/ RunActionTakePath
    \/ \E ok \in BOOLEAN : RunActionExecute(ok)
    \/ RunActionNotify
    \/ RunActionComplete

SpecRunAction == InitRunAction /\ [][NextRunAction]_vars

\* The path an ActionCompletion is to carry, by variant.
StatedPath(action) ==
    IF action.type \in OtherVariants THEN NoneV ELSE action.repo_path

\* C21: the ActionCompletion sent by run_action carries the repo_path of the
\* action for every variant that has one and no path for KillProcess,
\* ProbeBinaryHelp, CheckBinaryInPath and ShowMessage, after success and
\* after failure alike.
C21_CompletionCarriesAffectedPath ==
    fn_pc = "done" =>
        /\ Len(fn_out.sent) = 2
        /\ fn_out.sent[2].affected_repo_path = StatedPath(fn_in)

\* A failed npm install in the second repository has sent its completion,
\* which carries that repository's path.
C21_Witness ==
    /\ fn_pc = "done"
    /\ fn_out.result = Some("Err")
    /\ fn_in.type = "NpmInstallLockfile"
    /\ fn_out.sent[2].affected_repo_path = Some(OtherRepoPath)

\* The steps of the composite actions as the specification lists them.
ListedSteps(action) ==
    CASE action.type = "GitAddCommit" -> <<"git add -A", "git commit -m">>
      [] action.type = "GitAddCommitPush" -> <<"git add -A", "git commit -m", "git push">>
      [] action.type = "GitAddCommitPullRebase" ->
            <<"git add -A", "git commit -m", "git pull --rebase">>
      [] action.type = "GitPullRebasePush" -> <<"git pull --rebase", "git push">>
      [] action.type = "IgnoreEnvFiles" ->
            <<"append .env* to .gitignore", "git rm --cached --">>

Composite ==
    {"GitAddCommit", "GitAddCommitPush", "GitAddCommitPullRebase", "GitPullRebasePush",
     "IgnoreEnvFiles"}

\* C6: a composite action starts its steps in the listed order, one at a time
\* and each at most once; only the last step started may have failed, nothing
\* is started after a failure, and the failure reported is that step's.
C6_SequentialAbort ==
    \A t \in TaskIds :
        (tasks[t].pc \notin {"Idle", "Reported"} /\ tasks[t].action.type \in Composite) =>
            LET tk == tasks[t]
                n == Len(tk.started)
            IN  /\ n <= Len(ListedSteps(tk.action))
                /\ tk.started = SubSeq(ListedSteps(tk.action), 1, n)
                /\ Len(tk.outcomes) = IF tk.in_flight THEN n - 1 ELSE n
                /\ \A i \in 1..Len(tk.outcomes) : ~tk.outcomes[i] => i = n
                /\ (n > 0 /\ ~tk.in_flight /\ ~tk.outcomes[n]) =>
                        /\ tk.pc = "Failed"
                        /\ tk.result = <<"Err", ListedSteps(tk.action)[n]>>

\* GitAddCommitPush whose commit failed: add and commit were started, push never.
C6_Witness ==
    \E t \in TaskIds :
        /\ tasks[t].pc = "Failed"
        /\ tasks[t].sent = <<"notif">>
        /\ tasks[t].action.type = "GitAddCommitPush"
        /\ tasks[t].started = <<"git add -A", "git commit -m">>
        /\ tasks[t].result = <<"Err", "git commit -m">>

(***************************************************************************)
(* monitor.rs: scan_all                                                    *)
(***************************************************************************)
\* The repositories find_repos returns, after the ignored_repos filter, in
\* the order it returns them.
FoundPaths == <<RepoPath>>
Paths == {FoundPaths[k] : k \in 1..Len(FoundPaths)}

\* Path::file_name
file_name(path) ==
    CASE path = RepoPath -> "repo"
      [] path = "/w/Zeta" -> "Zeta"
      [] path = "/w/alpha" -> "alpha"
      [] path = "/w/beta" -> "beta"
      [] path = "/x/alpha" -> "alpha"

\* The repository names in ascending order (str::cmp).
NameOrder == <<"Zeta", "alpha", "beta", "repo">>
name_index(name) == CHOOSE k \in 1..Len(NameOrder) : NameOrder[k] = name

\* How many times a repository is written to.
MaxTouch == 1

\* A repository on disk: its git directory resolves or not, its index has
\* mtime m, and its work tree holds d uncommitted changes.
RepoOnDisk(git_dir, m, d) ==
    [git_dir |-> git_dir, index |-> Some(m), head |-> Some(0), fetch_head |-> NoneV,
     refs_remotes |-> NoneV, packed_refs |-> NoneV, dirty |-> d]

\* check_repo_status: the status git reports for the repository as it is on
\* disk when the probe runs.  It always returns Ok.
check_repo_status(repo_fs) ==
    [RepoStatusDefault EXCEPT !.branch = "main", !.uncommitted_count = repo_fs.dirty]

\* Repo::urgency
urgency(status) ==
    IF status.uncommitted_count > 0 /\ status.unpushed_count > 0 THEN 3
    ELSE IF status.uncommitted_count > 0 THEN 2
    ELSE IF status.unpushed_count > 0 THEN 1
    ELSE 0

\* Repo::new followed by the assignment of the status.
Repo(path, status) == [path |-> path, name |-> file_name(path), status |-> status]

\* The comparator with the urgency ascending.
sort_le_urgency_ascending(a, b) ==
    \/ urgency(a.status) < urgency(b.status)
    \/ /\ urgency(a.status) = urgency(b.status)
       /\ name_index(a.name) <= name_index(b.name)

\* The comparator of repos.sort_by is not Greater: urgency descending, then
\* name ascending.
sort_le(a, b) ==
    \/ urgency(a.status) > urgency(b.status)
    \/ /\ urgency(a.status) = urgency(b.status)
       /\ name_index(a.name) <= name_index(b.name)

RECURSIVE sort_insert(_, _)
sort_insert(sorted, r) ==
    IF sorted = <<>> THEN <<r>>
    ELSE IF sort_le(Head(sorted), r) THEN <<Head(sorted)>> \o sort_insert(Tail(sorted), r)
    ELSE <<r>> \o sorted

\* repos.sort_by(...): a stable sort.
RECURSIVE sort_repos(_)
sort_repos(repos) ==
    IF repos = <<>> THEN <<>>
    ELSE sort_insert(sort_repos(SubSeq(repos, 1, Len(repos) - 1)), repos[Len(repos)])

\* scan_all probing every path, whatever the cache holds.
scan_partition_probe_all(cache, fsv, refresh_interval_secs, t) ==
    [repos |-> <<>>, to_check |-> Paths]

\* scan_all, the partition loop: a path with a cache hit becomes a Repo with
\* the cached status, every other path goes to to_check.
scan_partition(cache, fsv, refresh_interval_secs, t) ==
    LET hit(p) == cache_hit(cache[p], read_cache_signals(fsv[p]),
                            stale_after(refresh_interval_secs), t)
        hits == SelectSeq(FoundPaths, LAMBDA p : hit(p) # NoneV)
    IN  [repos |-> [k \in 1..Len(hits) |-> Repo(hits[k], hit(hits[k])[1])],
         to_check |-> {p \in Paths : hit(p) = NoneV}]

\* scan_all, after join_next: the entry is stored only when the signals can be
\* read, with the signals and the Instant of the join.
cache_insert(cache, p, fsv, t, status) ==
    LET signals == read_cache_signals(fsv[p])
    IN  IF signals = NoneV THEN cache
        ELSE [cache EXCEPT ![p] = Some(CacheEntry(signals[1], t, status))]

NoScan == [pc |-> "idle"]

\* A scan_all invocation before its first statement.  looked_at, read, stored
\* and probed are history: when it looked the paths up, the signals it read,
\* the entries it stored, the paths it probed.
NewScan(cache, refresh_interval_secs) ==
    [pc |-> "called", cache |-> cache, refresh_interval_secs |-> refresh_interval_secs,
     to_check |-> {}, finished |-> {}, repos |-> <<>>, looked_at |-> 0,
     read |-> [p \in Paths |-> NoneV], stored |-> [p \in Paths |-> NoneV], probed |-> {}]

\* find_repos and the partition loop run; the probes of the first chunk are
\* spawned.  With nothing to probe, the repos are sorted and scan_all returns.
Partitioned(tk, fsv, t) ==
    LET part == scan_partition(tk.cache, fsv, tk.refresh_interval_secs, t)
    IN  [tk EXCEPT !.pc = IF part.to_check = {} THEN "returned" ELSE "probing",
                   !.repos = sort_repos(part.repos),
                   !.to_check = part.to_check,
                   !.looked_at = t,
                   !.read = [p \in Paths |-> read_cache_signals(fsv[p])],
                   !.probed = part.to_check]

\* The spawned scan task runs scan_all up to its first await.
ScanPartition(id) ==
    /\ scan_tasks[id].pc = "called"
    /\ scan_tasks' = [scan_tasks EXCEPT ![id] = Partitioned(scan_tasks[id], fs, now)]
    /\ UNCHANGED <<now, fs, scan_seq, batch, pureVars, actVars, loopVars>>

\* A probe task ends: check_repo_status has read the repository.
ProbeFinish(id, p) ==
    /\ scan_tasks[id].pc = "probing"
    /\ p \in scan_tasks[id].to_check
    /\ scan_tasks' = [scan_tasks EXCEPT ![id] =
            [scan_tasks[id] EXCEPT
                !.to_check = @ \ {p},
                !.finished = @ \cup {Repo(p, check_repo_status(fs[p]))}]]
    /\ UNCHANGED <<now, fs, scan_seq, batch, pureVars, actVars, loopVars>>

\* set.join_next() returns a finished probe: the cache entry is stored and the
\* Repo pushed; after the last one the repos are sorted and scan_all returns.
JoinNext(id, p) ==
    /\ scan_tasks[id].pc = "probing"
    /\ \E r \in scan_tasks[id].finished : r.path = p
    /\ LET tk == scan_tasks[id]
           repo == CHOOSE r \in tk.finished : r.path = p
           cache == cache_insert(tk.cache, p, fs, now, repo.status)
           last == tk.to_check = {} /\ tk.finished = {repo}
       IN  scan_tasks' = [scan_tasks EXCEPT ![id] =
                [tk EXCEPT !.finished = @ \ {repo},
                           !.cache = cache,
                           !.stored = [@ EXCEPT ![p] =
                                IF read_cache_signals(fs[p]) = NoneV THEN NoneV
                                ELSE cache[p]],
                           !.repos = IF last THEN sort_repos(Append(@, repo))
                                     ELSE Append(@, repo),
                           !.pc = IF last THEN "returned" ELSE "probing"]]
    /\ UNCHANGED <<now, fs, scan_seq, batch, pureVars, actVars, loopVars>>

\* The repository is written to: the index gets a later mtime.
Touch(p) ==
    /\ fs[p].index[1] < MaxTouch
    /\ fs' = [fs EXCEPT ![p].index = Some(@[1] + 1), ![p].dirty = @ + 1]
    /\ UNCHANGED <<now, scan_seq, scan_tasks, batch, pureVars, actVars, loopVars>>

(***************************************************************************)
(* SpecScan: scan_all called again and again on one cache (&mut cache),    *)
(* one call at a time, while the clock runs and the repository changes.    *)
(***************************************************************************)
\* The latest Instant.
MaxTime == 7

\* The number of scan_all invocations.
MaxScans == 3

ScanIds == 1..MaxScans

\* refresh_interval_secs of the configuration: TTL 6.
ScanRefreshIntervals == {1}

InitScan ==
    /\ PureIdle
    /\ ActIdle
    /\ LoopIdle
    /\ now = 0
    /\ fs \in [Paths -> {RepoOnDisk(g, 0, 0) : g \in BOOLEAN}]
    /\ scan_seq = 0
    /\ scan_tasks = [id \in ScanIds |-> NoScan]
    /\ batch = None

\* scan_all(&config, &mut cache) is called once the call before it has
\* returned, on the cache that call left, and runs up to its first await.
ScanCall(refresh_interval_secs) ==
    /\ scan_seq < MaxScans
    /\ \A id \in 1..scan_seq : scan_tasks[id].pc = "returned"
    /\ scan_seq' = scan_seq + 1
    /\ LET cache == IF scan_seq = 0 THEN [p \in Paths |-> NoneV]
                    ELSE scan_tasks[scan_seq].cache
       IN  scan_tasks' = [scan_tasks EXCEPT ![scan_seq + 1] =
                Partitioned(NewScan(cache, refresh_interval_secs), fs, now)]
    /\ UNCHANGED <<now, fs, batch, pureVars, actVars, loopVars>>

\* A second passes.
Tick ==
    /\ now < MaxTime
    /\ now' = now + 1
    /\ UNCHANGED <<fs, scan_seq, scan_tasks, batch, pureVars, actVars, loopVars>>

NextScan ==
    \/ \E r \in ScanRefreshIntervals : ScanCall(r)
    \/ \E id \in ScanIds, p \in Paths : ProbeFinish(id, p)
    \/ \E id \in ScanIds, p \in Paths : JoinNext(id, p)
    \/ \E p \in Paths : Touch(p)
    \/ Tick

SpecScan == InitScan /\ [][NextScan]_vars

\* The invocations that have returned.
Returned == {id \in 1..scan_seq : scan_tasks[id].pc = "returned"}

C27_NoStaleStatusServed ==
    \A j \in Returned : \A p \in Paths :
        (p \notin scan_tasks[j].probed /\ scan_tasks[j].read[p] # NoneV) =>
            \A k \in DOMAIN scan_tasks[j].repos :
                scan_tasks[j].repos[k].path = p =>
                    scan_tasks[j].repos[k].status.uncommitted_count
                        = scan_tasks[j].read[p][1].index_mtime[1]

(***************************************************************************)
(* SpecBatch: the batch loop of scan_all, with the probe tasks counted.    *)
(***************************************************************************)
MAX_CONCURRENT == 20

\* The largest to_check: two full chunks and one more path.
MaxToCheck == 41

\* slice::chunks without a chunk size: every path in one chunk.
chunk_len_unbounded(n, start) == n - start

\* to_check.chunks(MAX_CONCURRENT): the length of the chunk that starts at
\* offset start of a slice of length n.
chunk_len(n, start) == Min2(MAX_CONCURRENT, n - start)

\* n is to_check.len(); start the offset of the current chunk; spawned and
\* joined count the probe tasks spawned and joined so far, running those that
\* have not ended yet.
InitBatch ==
    /\ PureIdle
    /\ ActIdle
    /\ LoopIdle
    /\ now = 0 /\ fs = <<>> /\ scan_seq = 0 /\ scan_tasks = <<>>
    /\ \E n \in 0..MaxToCheck :
        batch = [pc |-> "spawn", n |-> n, start |-> 0, spawned |-> 0, running |-> 0,
                 joined |-> 0]

\* set.spawn(...) for the next path of the chunk.
BatchSpawn ==
    /\ batch.pc = "spawn"
    /\ batch.spawned - batch.start < chunk_len(batch.n, batch.start)
    /\ batch' = [batch EXCEPT !.spawned = @ + 1, !.running = @ + 1]
    /\ UNCHANGED <<now, fs, scan_seq, scan_tasks, pureVars, actVars, loopVars>>

\* The chunk is spawned: the loop turns to set.join_next().
BatchAwait ==
    /\ batch.pc = "spawn"
    /\ batch.start < batch.n
    /\ batch.spawned - batch.start = chunk_len(batch.n, batch.start)
    /\ batch' = [batch EXCEPT !.pc = "join"]
    /\ UNCHANGED <<now, fs, scan_seq, scan_tasks, pureVars, actVars, loopVars>>

\* A probe task ends.
BatchProbeEnd ==
    /\ batch.pc \in {"spawn", "join"}
    /\ batch.running > 0
    /\ batch' = [batch EXCEPT !.running = @ - 1]
    /\ UNCHANGED <<now, fs, scan_seq, scan_tasks, pureVars, actVars, loopVars>>

\* set.join_next().await returns Some: a task that has ended is joined.
BatchJoin ==
    /\ batch.pc = "join"
    /\ batch.spawned - batch.joined > batch.running
    /\ batch' = [batch EXCEPT !.joined = @ + 1]
    /\ UNCHANGED <<now, fs, scan_seq, scan_tasks, pureVars, actVars, loopVars>>

\* set.join_next().await returns None: the set is empty, the next chunk starts.
BatchNextChunk ==
    /\ batch.pc = "join"
    /\ batch.spawned = batch.joined
    /\ batch' = [batch EXCEPT !.pc = "spawn", !.start = batch.spawned]
    /\ UNCHANGED <<now, fs, scan_seq, scan_tasks, pureVars, actVars, loopVars>>

\* chunks() is exhausted.
BatchDone ==
    /\ batch.pc = "spawn"
    /\ batch.start >= batch.n
    /\ batch' = [batch EXCEPT !.pc = "done"]
    /\ UNCHANGED <<now, fs, scan_seq, scan_tasks, pureVars, actVars, loopVars>>

NextBatch ==
    \/ BatchSpawn
    \/ BatchAwait
    \/ BatchProbeEnd
    \/ BatchJoin
    \/ BatchNextChunk
    \/ BatchDone

SpecBatch == InitBatch /\ [][NextBatch]_vars

\* C9: at most 20 probe tasks are spawned and not yet joined, a batch has at
\* most 20 tasks, and while a batch has tasks every task of the batches before
\* it has been joined.
C9_AtMostTwentyInFlight ==
    /\ batch.spawned - batch.joined <= 20
    /\ batch.running <= batch.spawned - batch.joined
    /\ batch.spawned - batch.start <= 20
    /\ batch.spawned > batch.start => batch.joined >= batch.start

\* The second batch of 41 paths is all in flight: 20 tasks running, the 20 of
\* the first batch joined, the last path not yet spawned.
C9_Witness ==
    /\ batch.n = 41
    /\ batch.start = 20
    /\ batch.joined = 20
    /\ batch.running = 20

(***************************************************************************)
(* main.rs: the event loop.  Spec runs event_loop with the scan tasks it   *)
(* spawns, the git_commit tasks its key handler spawns, the clock and the  *)
(* repository.                                                             *)
(***************************************************************************)
\* mpsc::channel::<String>(8)
NotifCap == 8

\* mpsc::channel::<Vec<Repo>>(1) and mpsc::channel::<StatusCache>(1)
ScanChannelCap == 1

\* The longest text typed into the filter and into the commit message.
MaxText == 1

\* refresh_interval_secs of the configuration: TTL 6.
LoopRefreshIntervals == {2}

\* The latest Instant of the event loop.
LoopMaxTime == 2

\* The number of scans the event loop starts.
LoopMaxScans == 2

\* The keys pressed in Normal mode, and in Search and Commit mode, in the
\* behaviours explored.
CommandKeys == {"q", "r", "c", "x", "y", "Enter", "Esc"}
TextKeys == {"w", "Enter", "Esc", "Backspace"}

\* The characters of the strings the filter is matched against.
chars(str) ==
    CASE str = "repo" -> <<"r", "e", "p", "o">>
      [] str = "main" -> <<"m", "a", "i", "n">>
      [] str = "" -> <<>>

\* str::contains
contains(hay, needle) ==
    \E k \in 0..(Len(hay) - Len(needle)) : SubSeq(hay, k + 1, k + Len(needle)) = needle

\* App::new
NewApp(refresh_interval_secs) ==
    [repos |-> <<>>, selected |-> 0, filter_text |-> <<>>, commit_message |-> <<>>,
     mode |-> "Normal", is_scanning |-> TRUE,
     config |-> [refresh_interval_secs |-> refresh_interval_secs, show_clean |-> TRUE],
     should_quit |-> FALSE, should_reconfigure |-> FALSE, agent_focus_mode |-> FALSE,
     section |-> "Home"]

\* DashboardSection::all()
Sections ==
    <<"Home", "Repos", "Worktrees", "Processes", "Dependencies", "EnvAudit",
      "McpHealth", "AiCosts">>

\* Repo::needs_attention
repo_needs_attention(status) ==
    \/ status.uncommitted_count > 0
    \/ status.unpushed_count > 0
    \/ status.behind_count > 0

\* App::filtered_repos, without grouping.
filtered_repos(a) ==
    SelectSeq(a.repos, LAMBDA r :
        /\ a.config.show_clean \/ repo_needs_attention(r.status)
        /\ ~a.agent_focus_mode \/ agent_needs_attention(r.status)
        /\ \/ a.filter_text = <<>>
           \/ contains(chars(r.name), a.filter_text)
           \/ contains(chars(r.status.branch), a.filter_text))

\* App::selected_repo
selected_repo(a) ==
    IF a.selected < Len(filtered_repos(a)) THEN Some(filtered_repos(a)[a.selected + 1])
    ELSE NoneV

\* App::active_row_count.  App::dashboard is DashboardSnapshot::default() as
\* long as the App lives (event_loop never assigns it): every list of it is
\* empty, and only the Repos section has rows.
active_row_count(a) == IF a.section = "Repos" THEN Len(filtered_repos(a)) ELSE 0

\* App::move_selection: (selected + delta).rem_euclid(len)
move_selection(a, delta) ==
    IF active_row_count(a) = 0 THEN a
    ELSE [a EXCEPT !.selected = (a.selected + delta) % active_row_count(a)]

\* App::clamp_selection
clamp_selection(a) ==
    IF active_row_count(a) = 0 THEN [a EXCEPT !.selected = 0]
    ELSE IF a.selected >= active_row_count(a)
        THEN [a EXCEPT !.selected = active_row_count(a) - 1]
    ELSE a

section_position(a) == CHOOSE k \in DOMAIN Sections : Sections[k] = a.section

\* App::next_section
next_section(a) ==
    clamp_selection([a EXCEPT !.section = Sections[(section_position(a) % Len(Sections)) + 1],
                              !.selected = 0])

\* App::previous_section
previous_section(a) ==
    clamp_selection([a EXCEPT
        !.section = IF section_position(a) = 1 THEN Sections[Len(Sections)]
                    ELSE Sections[section_position(a) - 1],
        !.selected = 0])

\* handle_key: the App after the key, whether trigger_scan was called, and
\* the git command the key started on the selected repository, if any.  The
\* notification line (App::notify) is display only and left out.
KeyResult(a, scan, command) == [app |-> a, scan |-> scan, command |-> command]

handle_key(a, key) ==
    CASE a.mode = "Normal" ->
            CASE key = "q" -> KeyResult([a EXCEPT !.should_quit = TRUE], FALSE, NoneV)
              [] key = "r" -> KeyResult([a EXCEPT !.is_scanning = TRUE], TRUE, NoneV)
              [] key = "/" ->
                    KeyResult([a EXCEPT !.filter_text = <<>>, !.selected = 0,
                                        !.mode = "Search"], FALSE, NoneV)
              [] key = "?" -> KeyResult([a EXCEPT !.mode = "Help"], FALSE, NoneV)
              [] key = "s" ->
                    KeyResult([a EXCEPT !.should_reconfigure = TRUE, !.should_quit = TRUE],
                              FALSE, NoneV)
              [] key = "j" -> KeyResult(move_selection(a, 1), FALSE, NoneV)
              [] key = "k" -> KeyResult(move_selection(a, 0 - 1), FALSE, NoneV)
              [] key = "g" -> KeyResult(clamp_selection(a), FALSE, NoneV)
              [] key = "a" ->
                    KeyResult(clamp_selection([a EXCEPT !.agent_focus_mode = ~@]),
                              FALSE, NoneV)
              [] key \in {"f", "p", "P"} ->
                    IF selected_repo(a) # NoneV
                        THEN KeyResult(a, FALSE,
                                       Some(CASE key = "f" -> "git_fetch"
                                              [] key = "p" -> "git_pull"
                                              [] key = "P" -> "git_push"))
                    ELSE KeyResult(a, FALSE, NoneV)
              [] key = "c" ->
                    KeyResult([a EXCEPT !.commit_message = <<>>, !.mode = "Commit"],
                              FALSE, NoneV)
              [] OTHER -> KeyResult(a, FALSE, NoneV)
      [] a.mode = "Search" ->
            CASE key = "Esc" ->
                    KeyResult([a EXCEPT !.filter_text = <<>>, !.selected = 0,
                                        !.mode = "Normal"], FALSE, NoneV)
              [] key = "Enter" -> KeyResult([a EXCEPT !.mode = "Normal"], FALSE, NoneV)
              [] key = "Backspace" ->
                    KeyResult(clamp_selection([a EXCEPT !.filter_text =
                        SubSeq(@, 1, Max2(Len(@), 1) - 1)]), FALSE, NoneV)
              [] OTHER ->
                    KeyResult(clamp_selection([a EXCEPT !.filter_text = Append(@, key)]),
                              FALSE, NoneV)
      [] a.mode = "Help" -> KeyResult([a EXCEPT !.mode = "Normal"], FALSE, NoneV)
      [] a.mode = "Commit" ->
            CASE key = "Esc" ->
                    KeyResult([a EXCEPT !.commit_message = <<>>, !.mode = "Normal"],
                              FALSE, NoneV)
              [] key = "Enter" ->
                    LET after == [a EXCEPT !.commit_message = <<>>, !.mode = "Normal"]
                    IN  IF a.commit_message # <<>> /\ selected_repo(a) # NoneV
                            THEN KeyResult(after, FALSE, Some("git_commit"))
                        ELSE KeyResult(after, FALSE, NoneV)
              [] key = "Backspace" ->
                    KeyResult([a EXCEPT !.commit_message =
                        SubSeq(@, 1, Max2(Len(@), 1) - 1)], FALSE, NoneV)
              [] OTHER ->
                    KeyResult([a EXCEPT !.commit_message = Append(@, key)], FALSE, NoneV)

\* trigger_scan: tokio::spawn of a scan task that owns a clone of the cache.
trigger_scan(scans, seq, cache, refresh_interval_secs) ==
    [scans EXCEPT ![seq + 1] = NewScan(cache, refresh_interval_secs)]

\* event_loop up to `loop`: the App, the channels, the empty cache and the
\* first trigger_scan.
Init ==
    /\ PureIdle
    /\ tasks = <<>> /\ notif_ch = <<>> /\ completion_ch = <<>> /\ commits = NoCommits
    /\ batch = None
    /\ now = 0
    /\ fs = [p \in Paths |-> RepoOnDisk(TRUE, 0, 0)]
    /\ current_cache = [p \in Paths |-> NoneV]
    /\ cache_ch = <<>>
    /\ scan_ch = <<>>
    /\ \E r \in LoopRefreshIntervals :
        /\ app = NewApp(r)
        /\ scan_tasks = trigger_scan([id \in ScanIds |-> NoScan], 0,
                                     [p \in Paths |-> NoneV], r)
    /\ scan_seq = 1
    /\ last_refresh = 0
    /\ loop_pc = "notif"
    /\ commands = {}
    /\ ProvIdle

\* terminal.draw, then `while let Ok(msg) = notif_rx.try_recv()`: every
\* pending notification is taken.
LoopDrainNotif ==
    /\ UNCHANGED provVars
    /\ loop_pc = "notif"
    /\ loop_pc' = "cache"
    /\ notif_ch' = <<>>
    /\ UNCHANGED <<app, current_cache, cache_ch, scan_ch, last_refresh, commands,
                   tasks, completion_ch, commits, pureVars, scanVars>>

\* `if let Ok(updated) = cache_rx.try_recv()`
LoopRecvCache ==
    /\ UNCHANGED provVars
    /\ loop_pc = "cache"
    /\ loop_pc' = "scan"
    /\ IF cache_ch # <<>>
         THEN current_cache' = Head(cache_ch).cache /\ cache_ch' = Tail(cache_ch)
         ELSE UNCHANGED <<current_cache, cache_ch>>
    /\ UNCHANGED <<scan_ch, app, last_refresh, commands, actVars, pureVars, scanVars>>

\* `if let Ok(repos) = scan_rx.try_recv()`
LoopRecvScan ==
    /\ UNCHANGED provVars
    /\ loop_pc = "scan"
    /\ loop_pc' = "poll"
    /\ IF scan_ch # <<>>
         THEN /\ app' = [app EXCEPT !.repos = Head(scan_ch).repos, !.is_scanning = FALSE]
              /\ scan_ch' = Tail(scan_ch)
              /\ last_refresh' = now
         ELSE UNCHANGED <<app, scan_ch, last_refresh>>
    /\ UNCHANGED <<current_cache, cache_ch, commands, actVars, pureVars, scanVars>>

NoKey == "NoKey"

\* crossterm::event::poll(100 ms) and handle_key on the key read, if any.  The
\* poll is where the loop waits: dt seconds pass in it.
LoopPoll(key, dt) ==
    /\ UNCHANGED provVars
    /\ loop_pc = "poll"
    /\ loop_pc' = "cadence"
    /\ now + dt <= LoopMaxTime
    /\ now' = now + dt
    /\ key \in {NoKey} \cup (IF app.mode \in {"Search", "Commit"} THEN TextKeys
                            ELSE CommandKeys)
    /\ key \in TextKeys \ {"Enter", "Esc", "Backspace"} =>
            /\ app.mode = "Search" => Len(app.filter_text) < MaxText
            /\ app.mode = "Commit" => Len(app.commit_message) < MaxText
    /\ LET res == IF key = NoKey THEN KeyResult(app, FALSE, NoneV)
                  ELSE handle_key(app, key)
       IN  /\ app' = res.app
           /\ IF res.scan
                THEN /\ scan_seq < LoopMaxScans
                     /\ scan_seq' = scan_seq + 1
                     /\ scan_tasks' = trigger_scan(scan_tasks, scan_seq, current_cache,
                                                   app.config.refresh_interval_secs)
                ELSE UNCHANGED <<scan_seq, scan_tasks>>
           /\ IF res.command = Some("git_commit")
                THEN /\ commits.spawned < MaxCommits
                     /\ commits' = [commits EXCEPT !.spawned = @ + 1, !.running = @ + 1]
                ELSE UNCHANGED commits
           /\ commands' = IF res.command = NoneV THEN commands
                          ELSE commands \cup {[command |-> res.command[1], key |-> key,
                                               mode |-> app.mode]}
    /\ UNCHANGED <<current_cache, cache_ch, scan_ch, last_refresh,
                   tasks, notif_ch, completion_ch, pureVars, fs, batch>>

\* The cadence check, then the test of should_quit and should_reconfigure.
LoopCadence ==
    /\ UNCHANGED provVars
    /\ loop_pc = "cadence"
    /\ loop_pc' = IF app.should_quit \/ app.should_reconfigure THEN "exited" ELSE "notif"
    /\ IF ~app.is_scanning /\ now - last_refresh >= app.config.refresh_interval_secs
         THEN /\ scan_seq < LoopMaxScans
              /\ scan_seq' = scan_seq + 1
              /\ scan_tasks' = trigger_scan(scan_tasks, scan_seq, current_cache,
                                            app.config.refresh_interval_secs)
              /\ app' = [app EXCEPT !.is_scanning = TRUE]
              /\ last_refresh' = now
         ELSE UNCHANGED <<scan_seq, scan_tasks, app, last_refresh>>
    /\ UNCHANGED <<current_cache, cache_ch, scan_ch, commands, actVars, pureVars,
                   now, fs, batch>>

\* The scan task after scan_all: cache_tx.send(cache).await
ScanSendCache(id) ==
    /\ UNCHANGED provVars
    /\ scan_tasks[id].pc = "returned"
    /\ Len(cache_ch) < ScanChannelCap
    /\ cache_ch' = Append(cache_ch, [id |-> id, cache |-> scan_tasks[id].cache])
    /\ scan_tasks' = [scan_tasks EXCEPT ![id].pc = "cache_sent"]
    /\ UNCHANGED <<current_cache, scan_ch, loop_pc, app, last_refresh, commands,
                   actVars, pureVars, now, fs, scan_seq, batch>>

\* tx.send(repos).await, the end of the scan task.
ScanSendRepos(id) ==
    /\ UNCHANGED provVars
    /\ scan_tasks[id].pc = "cache_sent"
    /\ Len(scan_ch) < ScanChannelCap
    /\ scan_ch' = Append(scan_ch, [id |-> id, repos |-> scan_tasks[id].repos])
    /\ scan_tasks' = [scan_tasks EXCEPT ![id] = [pc |-> "done"]]
    /\ UNCHANGED <<current_cache, cache_ch, loop_pc, app, last_refresh, commands,
                   actVars, pureVars, now, fs, scan_seq, batch>>

Next ==
    \/ LoopDrainNotif
    \/ LoopRecvCache
    \/ LoopRecvScan
    \/ \E key \in {NoKey} \cup CommandKeys \cup TextKeys, dt \in 0..1 : LoopPoll(key, dt)
    \/ LoopCadence
    \/ \E id \in ScanIds : ScanPartition(id)
    \/ \E id \in ScanIds, p \in Paths : ProbeFinish(id, p)
    \/ \E id \in ScanIds, p \in Paths : JoinNext(id, p)
    \/ \E id \in ScanIds : ScanSendCache(id)
    \/ \E id \in ScanIds : ScanSendRepos(id)
    \/ \E p \in Paths : Touch(p)
    \/ CommitSendNotif(NotifCap)
    \/ CommitSendCompletion

Spec == Init /\ [][Next]_vars

\* C1: every git command a key press starts on a repository is started by a
\* confirmation key (Enter or y) pressed in the confirmation mode, where the
\* pending action set by "x" is held.
C1_ConfirmedBeforeRun ==
    \A c \in commands : c.mode = "ConfirmAction" /\ c.key \in {"Enter", "y"}

\* The scans that have been started and whose result the event loop has not
\* received yet.
ScansInFlight ==
    {id \in ScanIds :
        \/ scan_tasks[id].pc \in {"called", "probing", "returned", "cache_sent"}
        \/ \E k \in DOMAIN scan_ch : scan_ch[k].id = id}

\* C2: once an action on p has sent its ActionCompletion, the next scan
\* started probes p instead of serving it from the cache.
C2_NextScanProbesAffectedRepo ==
    \A k \in DOMAIN completion_ch : \A id \in ScanIds : \A p \in Paths :
        (/\ completion_ch[k].affected_repo_path = Some(p)
         /\ id = completion_ch[k].scans_started + 1
         /\ scan_tasks[id].pc \in {"probing", "returned", "cache_sent"})
            => p \in scan_tasks[id].probed

\* C8: at most one scan is in flight, and is_scanning is true exactly while
\* one is.
C8_OneScanInFlight ==
    /\ Cardinality(ScansInFlight) <= 1
    /\ app.is_scanning <=> ScansInFlight # {}

\* C10: an ActionCompletion is taken by the event loop, and answered with a
\* scan, before refresh_interval_secs have passed since it was sent.
C10_CompletionRescansAtOnce ==
    \A k \in DOMAIN completion_ch :
        now - completion_ch[k].sent_at < app.config.refresh_interval_secs

\* C24: every iteration of the event loop polls completion events first,
\* before the returned cache, the scan results and the scanning cadence: a
\* completion that is ready when the iteration begins its polls is taken
\* there, before the cadence check of that iteration can trigger a scan.
C24_CompletionPolledFirst ==
    [][(loop_pc = "notif" /\ loop_pc' = "cache" /\ completion_ch # <<>>) =>
            Len(completion_ch') < Len(completion_ch)]_vars

\* C28: scan results and cache are applied as a pair: in an iteration in
\* which the loop applies the repo list of a scan, it holds the cache that
\* scan returned.  The cache is polled before the scan results and not again
\* in the iteration, so when the list is taken the cache of the same scan is
\* no longer waiting in its channel.
C28_ReposAppliedWithTheirCache ==
    [][(loop_pc = "scan" /\ loop_pc' = "poll" /\ scan_ch # <<>>) =>
            \A k \in DOMAIN cache_ch : cache_ch[k].id # Head(scan_ch).id]_vars

(***************************************************************************)
(* scanner.rs: find_repos.  A path is the sequence of its components; a    *)
(* layout says which directories of Dirs hold a .git entry and which       *)
(* cannot be read.                                                         *)
(***************************************************************************)
\* A directory name that is not valid UTF-8.
NonUtf8Name == "\\xFF"

\* The directories of the layouts, in the order of PathBuf::cmp.
DirList ==
    << <<"base">>,
       <<"base", ".h">>,
       <<"base", "a">>,
       <<"base", "a", "b">>,
       <<"base", "a", "b", "c">>,
       <<"base", "a", "vendor">>,
       <<"base", "a", NonUtf8Name>> >>

Dirs == {DirList[k] : k \in DOMAIN DirList}

Layouts == [git : SUBSET Dirs, unreadable : {{}, {<<"base", "a">>}}]

\* The component names in byte order, as PathBuf compares them.
ComponentOrder == <<".h", "a", "b", "base", "c", "nonexistent", "vendor", NonUtf8Name>>

component_index(name) == CHOOSE k \in DOMAIN ComponentOrder : ComponentOrder[k] = name

\* PathBuf::cmp: component by component, a proper prefix first.
RECURSIVE path_lt(_, _)
path_lt(p, q) ==
    IF q = <<>> THEN FALSE
    ELSE IF p = <<>> THEN TRUE
    ELSE IF Head(p) # Head(q) THEN component_index(Head(p)) < component_index(Head(q))
    ELSE path_lt(Tail(p), Tail(q))

SKIP_DIRS ==
    {"node_modules", ".build", "Pods", "DerivedData", "vendor", "venv", "dist",
     "build", ".next", "target", "__pycache__", ".gradle", ".cache"}

\* OsStr::to_str
to_str(name) == IF name = NonUtf8Name THEN NoneV ELSE Some(name)

\* name.starts_with('.')
starts_with_dot(name) == name \in {".h", ".build", ".next", ".gradle", ".cache"}

\* scan_dir's filter with no entry passed over.
skipped_never(name) == FALSE

\* scan_dir's filter on an entry that is a directory: its name is not UTF-8,
\* hidden, or in the skip set.
skipped(name) ==
    \/ to_str(name) = NoneV
    \/ starts_with_dot(name)
    \/ name \in SKIP_DIRS

\* std::fs::read_dir(dir), the entries that are directories.
read_dir(dir) ==
    SelectSeq(DirList, LAMBDA p : Len(p) = Len(dir) + 1 /\ SubSeq(p, 1, Len(dir)) = dir)

RECURSIVE scan_dir(_, _, _, _)
RECURSIVE scan_entries(_, _, _, _)

\* `for entry in entries.flatten()`: what the entries push onto repos.
scan_entries(layout, entries, depth, max_depth) ==
    IF entries = <<>> THEN <<>>
    ELSE (IF skipped(Head(entries)[Len(Head(entries))]) THEN <<>>
          ELSE scan_dir(layout, Head(entries), depth + 1, max_depth))
         \o scan_entries(layout, Tail(entries), depth, max_depth)

\* scan_dir without the return after a repository was recorded.
scan_dir_descending(layout, dir, depth, max_depth) ==
    IF depth > max_depth THEN <<>>
    ELSE (IF dir \in layout.git THEN <<dir>> ELSE <<>>)
         \o (IF dir \in layout.unreadable THEN <<>>
             ELSE scan_entries(layout, read_dir(dir), depth, max_depth))

\* scan_dir: what it pushes onto repos.
scan_dir(layout, dir, depth, max_depth) ==
    IF depth > max_depth THEN <<>>
    ELSE IF dir \in layout.git THEN <<dir>>
    ELSE IF dir \in layout.unreadable THEN <<>>
    ELSE scan_entries(layout, read_dir(dir), depth, max_depth)

\* Vec::sort on paths.
RECURSIVE path_insert(_, _)
path_insert(sorted, p) ==
    IF sorted = <<>> THEN <<p>>
    ELSE IF path_lt(p, Head(sorted)) THEN <<p>> \o sorted
    ELSE <<Head(sorted)>> \o path_insert(Tail(sorted), p)

RECURSIVE path_sort(_)
path_sort(paths) ==
    IF paths = <<>> THEN <<>> ELSE path_insert(path_sort(Tail(paths)), Head(paths))

\* Vec::dedup: consecutive equal elements are removed.
RECURSIVE dedup(_)
dedup(paths) ==
    IF Len(paths) < 2 THEN paths
    ELSE IF paths[1] = paths[2] THEN dedup(Tail(paths))
    ELSE <<Head(paths)>> \o dedup(Tail(paths))

RECURSIVE scan_roots(_, _, _)
scan_roots(layout, directories, max_depth) ==
    IF directories = <<>> THEN <<>>
    ELSE (IF Head(directories) \notin Dirs THEN <<>>
          ELSE scan_dir(layout, Head(directories), 0, max_depth))
         \o scan_roots(layout, Tail(directories), max_depth)

find_repos(layout, directories, max_depth) ==
    dedup(path_sort(scan_roots(layout, directories, max_depth)))

(***************************************************************************)
(* SpecFindRepos: find_repos on every layout, then again one level deeper. *)
(***************************************************************************)
MaxRoots == 2
MaxDepthArg == 3

RootChoices == {<<"base">>, <<"base", "a", "b">>, <<"base", ".h">>, <<"nonexistent">>}

InitFindRepos ==
    /\ ActIdle
    /\ ScanIdle
    /\ LoopIdle
    /\ fn_pc = "input"
    /\ fn_in \in [layout : Layouts,
                  directories : UNION {[1..n -> RootChoices] : n \in 1..MaxRoots},
                  max_depth : 0..MaxDepthArg]
    /\ fn_out = <<>>

CallFindRepos ==
    /\ fn_pc = "input"
    /\ fn_pc' = "done"
    /\ fn_out' = <<find_repos(fn_in.layout, fn_in.directories, fn_in.max_depth)>>
    /\ UNCHANGED <<fn_in, actVars, scanVars, loopVars>>

CallFindReposDeeper ==
    /\ fn_pc = "done"
    /\ fn_pc' = "deeper"
    /\ fn_out' = Append(fn_out,
                        find_repos(fn_in.layout, fn_in.directories, fn_in.max_depth + 1))
    /\ UNCHANGED <<fn_in, actVars, scanVars, loopVars>>

NextFindRepos == CallFindRepos \/ CallFindReposDeeper

SpecFindRepos == InitFindRepos /\ [][NextFindRepos]_vars

is_prefix(r, p) == Len(r) <= Len(p) /\ SubSeq(p, 1, Len(r)) = r

Range(seq) == {seq[k] : k \in DOMAIN seq}

\* C11 as stated: no path returned has an ancestor directory, anywhere above
\* it, that is a repository.
C11_NoAncestorIsRepo ==
    fn_pc # "input" =>
        \A p \in Range(fn_out[1]) : \A q \in Dirs :
            (is_prefix(q, p) /\ q # p) => q \notin fn_in.layout.git

\* C11: every path returned was reached from a root of the call with no
\* repository among the directories from that root down to the path's parent.
C11_NoRepoBetweenRootAndPath ==
    fn_pc # "input" =>
        \A p \in Range(fn_out[1]) :
            \E r \in Range(fn_in.directories) :
                /\ is_prefix(r, p)
                /\ \A q \in Dirs :
                    (is_prefix(r, q) /\ is_prefix(q, p) /\ q # p)
                        => q \notin fn_in.layout.git

C11_Witness ==
    /\ fn_pc = "done"
    /\ fn_in.directories = << <<"base">> >>
    /\ fn_in.max_depth = 3
    /\ fn_in.layout.git = {<<"base", "a">>, <<"base", "a", "b">>}
    /\ fn_in.layout.unreadable = {}
    /\ fn_out = << << <<"base", "a">> >> >>

\* The roots of the call that are directories, and the directories from a
\* root r down to p, both included.
ScannedRoots == Range(fn_in.directories) \cap Dirs

Between(r, p) == {q \in Dirs : is_prefix(r, q) /\ is_prefix(q, p)}

\* C12 as stated: a deeper scan returns every path of the shallower one, and
\* a repository k levels below a root is returned iff k <= max_depth and no
\* directory on the way to it is hidden, in the skip set or a repository.
C12_MonotoneAndFoundIff ==
    /\ fn_pc = "deeper" => Range(fn_out[1]) \subseteq Range(fn_out[2])
    /\ fn_pc # "input" =>
        \A p \in fn_in.layout.git :
            p \in Range(fn_out[1]) <=>
                \E r \in ScannedRoots :
                    /\ is_prefix(r, p)
                    /\ Len(p) - Len(r) <= fn_in.max_depth
                    /\ \A q \in Between(r, p) \ {p} :
                        /\ q \notin fn_in.layout.git
                        /\ ~starts_with_dot(q[Len(q)])
                        /\ q[Len(q)] \notin SKIP_DIRS

\* C12: a deeper scan returns every path of the shallower one, and a
\* repository k levels below a root is returned iff, for some root, k <=
\* max_depth, no directory from the root down to its parent is a repository
\* or unreadable, and no directory below the root down to the repository
\* itself is hidden, in the skip set or named in non-UTF-8.
C12_MonotoneAndFoundIffNotSkipped ==
    /\ fn_pc = "deeper" => Range(fn_out[1]) \subseteq Range(fn_out[2])
    /\ fn_pc # "input" =>
        \A p \in fn_in.layout.git :
            p \in Range(fn_out[1]) <=>
                \E r \in ScannedRoots :
                    /\ is_prefix(r, p)
                    /\ Len(p) - Len(r) <= fn_in.max_depth
                    /\ \A q \in Between(r, p) \ {p} :
                        q \notin fn_in.layout.git /\ q \notin fn_in.layout.unreadable
                    /\ \A q \in Between(r, p) \ {r} :
                        /\ ~starts_with_dot(q[Len(q)])
                        /\ q[Len(q)] \notin SKIP_DIRS
                        /\ to_str(q[Len(q)]) # NoneV

\* The repository three levels down is missed at max_depth 2 and found at 3.
C12_Witness ==
    /\ fn_pc = "deeper"
    /\ fn_in.directories = << <<"base">> >>
    /\ fn_in.max_depth = 2
    /\ fn_in.layout.git = {<<"base", ".h">>, <<"base", "a", "b", "c">>}
    /\ fn_out = << <<>>, << <<"base", "a", "b", "c">> >> >>

(***************************************************************************)
(* git.rs: check_repo_status from the outcomes of its git queries.  The    *)
(* outcome of one git process is a timeout, an I/O error of the spawn, or  *)
(* an exit with a status and the text on stdout; text is a sequence of     *)
(* tokens in which " " and "\n" are the white space.                       *)
(***************************************************************************)
Timeout == [kind |-> "timeout"]
IoError == [kind |-> "io_error"]
Exit(success, stdout) == [kind |-> "exit", success |-> success, stdout |-> stdout]

\* What a git process leaves behind: an exit with failure prints nothing on
\* stdout, except rev-parse, which echoes the name it could not resolve.
Outcomes(texts, failure_texts) ==
    {Timeout, IoError} \cup {Exit(TRUE, t) : t \in texts}
                       \cup {Exit(FALSE, t) : t \in failure_texts}

WhiteSpace == {" ", "\n"}

\* str::trim
RECURSIVE trim_start(_)
trim_start(text) ==
    IF text # <<>> /\ Head(text) \in WhiteSpace THEN trim_start(Tail(text)) ELSE text

RECURSIVE trim_end(_)
trim_end(text) ==
    IF text # <<>> /\ text[Len(text)] \in WhiteSpace
        THEN trim_end(SubSeq(text, 1, Len(text) - 1))
    ELSE text

trim(text) == trim_end(trim_start(text))

\* str::lines: the text between line ends.
RECURSIVE lines(_)
lines(text) ==
    IF text = <<>> THEN <<>>
    ELSE IF \E k \in DOMAIN text : text[k] = "\n"
        THEN LET k == CHOOSE j \in DOMAIN text :
                        text[j] = "\n" /\ \A h \in 1..(j - 1) : text[h] # "\n"
             IN  <<SubSeq(text, 1, k - 1)>> \o lines(SubSeq(text, k + 1, Len(text)))
    ELSE <<text>>

\* run_git: Err on a timeout or an I/O error, else Ok(stdout); the exit status
\* is not looked at.
run_git(outcome) ==
    IF outcome.kind = "exit" THEN Some(outcome.stdout) ELSE NoneV

\* get_branch
get_branch(outcome) ==
    LET raw == run_git(outcome)
    IN  IF raw = NoneV THEN NoneV
        ELSE LET branch == trim(raw[1])
             IN  Some([branch |-> branch, is_detached |-> branch = <<"HEAD">>])

\* raw.lines().filter(|l| !l.trim().is_empty()).count()
count_lines(raw) == Cardinality({k \in DOMAIN lines(raw) : trim(lines(raw)[k]) # <<>>})

\* get_uncommitted_count and get_stash_count
get_line_count(outcome) ==
    LET raw == run_git(outcome)
    IN  IF raw = NoneV THEN NoneV ELSE Some(count_lines(raw[1]))

\* str::parse::<usize>().unwrap_or(0)
parse_usize_or_0(text) ==
    IF text = <<"1">> THEN 1 ELSE IF text = <<"2">> THEN 2 ELSE 0

\* The closure parse_count of get_remote_counts.
parse_count(outcome) ==
    IF outcome.kind = "exit" /\ outcome.success THEN parse_usize_or_0(trim(outcome.stdout))
    ELSE 0

\* get_remote_counts: (ahead, behind, has_remote)
get_remote_counts(remote, ahead, behind) ==
    LET remote_raw == run_git(remote)
    IN  IF remote_raw = NoneV THEN NoneV
        ELSE IF trim(remote_raw[1]) = <<>> THEN Some(<<0, 0, FALSE>>)
        ELSE Some(<<parse_count(ahead), parse_count(behind), TRUE>>)

\* Option::unwrap_or / Result::unwrap_or
unwrap_or(res, default) == IF res = NoneV THEN default ELSE res[1]

\* String of a text of at most one token.
to_string(text) == IF text = <<>> THEN "" ELSE text[1]

\* check_repo_status: the four queries joined, then the defaults.
probe_repo_status(q) ==
    LET branch_res == unwrap_or(get_branch(q.branch),
                                [branch |-> <<"unknown">>, is_detached |-> FALSE])
        remote_res == unwrap_or(get_remote_counts(q.remote, q.ahead, q.behind),
                                <<0, 0, FALSE>>)
    IN  Some([branch |-> to_string(branch_res.branch),
              uncommitted_count |-> unwrap_or(get_line_count(q.uncommitted), 0),
              unpushed_count |-> remote_res[1],
              behind_count |-> remote_res[2],
              stash_count |-> unwrap_or(get_line_count(q.stash), 0),
              has_remote |-> remote_res[3],
              is_detached |-> branch_res.is_detached])

(***************************************************************************)
(* SpecProbe: check_repo_status on every combination of query outcomes.    *)
(***************************************************************************)
QueryOutcomes ==
    [branch : Outcomes({<<"main", "\n">>, <<"HEAD", "\n">>}, {<<>>, <<"HEAD", "\n">>}),
     uncommitted : Outcomes({<<>>, <<" ", "M", "\n", "\n", "??", "\n">>}, {<<>>}),
     remote : Outcomes({<<>>, <<"origin", "\n">>}, {<<>>}),
     ahead : Outcomes({<<"1", "\n">>, <<"x">>}, {<<>>}),
     behind : Outcomes({<<"2", "\n">>}, {<<>>}),
     stash : Outcomes({<<>>, <<"stash@{0}", "\n">>}, {<<>>})]

InitProbe ==
    /\ ActIdle
    /\ ScanIdle
    /\ LoopIdle
    /\ fn_pc = "input"
    /\ fn_in \in QueryOutcomes
    /\ fn_out = None

CallProbe ==
    /\ fn_pc = "input"
    /\ fn_pc' = "done"
    /\ fn_out' = probe_repo_status(fn_in)
    /\ UNCHANGED <<fn_in, actVars, scanVars, loopVars>>

NextProbe == CallProbe

SpecProbe == InitProbe /\ [][NextProbe]_vars

\* A query that failed: it timed out, could not be run, or git exited with a
\* failure status.
Failed(outcome) == outcome.kind # "exit" \/ ~outcome.success

\* C13: every status returned has has_remote = false => unpushed_count =
\* behind_count = 0 and is_detached <=> branch = "HEAD"; a failed query yields
\* its default (branch "unknown", count 0, has_remote false); the result is
\* never an error.
C13_InvariantsAndSafeDefaults ==
    fn_pc = "done" =>
        /\ fn_out # NoneV
        /\ LET st == fn_out[1]
           IN  /\ ~st.has_remote => st.unpushed_count = 0 /\ st.behind_count = 0
               /\ st.is_detached <=> st.branch = "HEAD"
               /\ Failed(fn_in.branch) => st.branch = "unknown"
               /\ Failed(fn_in.uncommitted) => st.uncommitted_count = 0
               /\ Failed(fn_in.stash) => st.stash_count = 0
               /\ Failed(fn_in.remote) => ~st.has_remote
               /\ Failed(fn_in.ahead) => st.unpushed_count = 0
               /\ Failed(fn_in.behind) => st.behind_count = 0

(***************************************************************************)
(* actions.rs: append_env_pattern_to_gitignore.  The file .gitignore is    *)
(* NoneV when it does not exist, else Some(text); a text is a sequence of  *)
(* tokens as above, InvalidUtf8 standing for a byte sequence that is not   *)
(* UTF-8.                                                                  *)
(***************************************************************************)
InvalidUtf8 == "\\xFF"

\* fs::read_to_string: Err when the file is missing or is not valid UTF-8.
read_to_string(file) ==
    IF file = NoneV THEN NoneV
    ELSE IF \E k \in DOMAIN file[1] : file[1][k] = InvalidUtf8 THEN NoneV
    ELSE file

\* existing.lines().any(|line| line.trim() == ".env*")
has_env_line(text) == \E k \in DOMAIN lines(text) : trim(lines(text)[k]) = <<".env*">>

\* append_env_pattern_to_gitignore: the file after the call.
append_env_pattern_to_gitignore(file) ==
    LET existing == unwrap_or(read_to_string(file), <<>>)
    IN  IF has_env_line(existing) THEN file
        ELSE Some((IF existing # <<>> /\ existing[Len(existing)] # "\n"
                       THEN Append(existing, "\n") ELSE existing) \o <<".env*", "\n">>)

(***************************************************************************)
(* SpecGitignore: successive appends on every .gitignore of the bounded    *)
(* set.                                                                    *)
(***************************************************************************)
MaxFileLen == 4
MaxAppends == 3

FileTokens == {"target/", ".env*", " ", "\n", InvalidUtf8}

GitignoreFiles ==
    {NoneV} \cup {Some(t) : t \in UNION {[1..n -> FileTokens] : n \in 0..MaxFileLen}}

InitGitignore ==
    /\ ActIdle
    /\ ScanIdle
    /\ LoopIdle
    /\ fn_pc = "input"
    /\ fn_in \in GitignoreFiles
    /\ fn_out = [file |-> fn_in, before |-> fn_in, calls |-> 0]

CallAppendEnvPattern ==
    /\ fn_out.calls < MaxAppends
    /\ fn_pc' = "appended"
    /\ fn_out' = [file |-> append_env_pattern_to_gitignore(fn_out.file),
                  before |-> fn_out.file, calls |-> fn_out.calls + 1]
    /\ UNCHANGED <<fn_in, actVars, scanVars, loopVars>>

NextGitignore == CallAppendEnvPattern

SpecGitignore == InitGitignore /\ [][NextGitignore]_vars

\* The lines of a file; a missing file has none.
file_lines(file) == IF file = NoneV THEN <<>> ELSE lines(file[1])

has_env_line_on_disk(file) ==
    \E k \in DOMAIN file_lines(file) : trim(file_lines(file)[k]) = <<".env*">>

\* C14: from any .gitignore, or none, without a line that trims to .env*,
\* after n >= 1 appends the file has exactly one line equal to .env* and
\* keeps every original line in order; a call on a file that has such a line
\* leaves the file unchanged.
C14_AppendIdempotent ==
    fn_pc = "appended" =>
        /\ ~has_env_line_on_disk(fn_in) =>
            /\ Cardinality({k \in DOMAIN file_lines(fn_out.file) :
                                file_lines(fn_out.file)[k] = <<".env*">>}) = 1
            /\ Len(file_lines(fn_in)) <= Len(file_lines(fn_out.file))
            /\ SubSeq(file_lines(fn_out.file), 1, Len(file_lines(fn_in))) = file_lines(fn_in)
        /\ has_env_line_on_disk(fn_out.before) => fn_out.file = fn_out.before

(***************************************************************************)
(* SpecSort: the order of the list scan_all returns.  Each repository      *)
(* found is a cache hit or is probed, with any status; the hits are pushed *)
(* in the order of the paths, the probed ones in the order their tasks are *)
(* joined, then the list is sorted.                                        *)
(***************************************************************************)
\* What find_repos returns, sorted as paths.
SortFoundPaths == <<"/w/Zeta", "/w/alpha", "/w/beta", "/x/alpha">>

SortPaths == {SortFoundPaths[k] : k \in DOMAIN SortFoundPaths}

\* One status for each urgency.
SortStatuses ==
    {[RepoStatusDefault EXCEPT !.branch = "main", !.uncommitted_count = u,
                               !.unpushed_count = a, !.has_remote = a > 0] :
        u \in 0..1, a \in {0, 2}}

InitSort ==
    /\ ActIdle
    /\ ScanIdle
    /\ LoopIdle
    /\ fn_pc = "input"
    /\ fn_in \in [status : [SortPaths -> SortStatuses], hits : SUBSET SortPaths]
    /\ fn_out = [repos |-> <<>>, to_check |-> {}, joined |-> <<>>]

\* The partition loop: the cache hits are pushed, the others go to to_check.
SortPartition ==
    /\ fn_pc = "input"
    /\ fn_pc' = "joining"
    /\ LET hits == SelectSeq(SortFoundPaths, LAMBDA p : p \in fn_in.hits)
       IN  fn_out' = [repos |-> [k \in 1..Len(hits) |-> Repo(hits[k], fn_in.status[hits[k]])],
                      to_check |-> SortPaths \ fn_in.hits,
                      joined |-> <<>>]
    /\ UNCHANGED <<fn_in, actVars, scanVars, loopVars>>

\* set.join_next(): the task of p is the next to be joined; its repo is pushed.
SortJoinNext(p) ==
    /\ fn_pc = "joining"
    /\ p \in fn_out.to_check
    /\ fn_out' = [repos |-> Append(fn_out.repos, Repo(p, fn_in.status[p])),
                  to_check |-> fn_out.to_check \ {p},
                  joined |-> Append(fn_out.joined, p)]
    /\ UNCHANGED <<fn_pc, fn_in, actVars, scanVars, loopVars>>

\* repos.sort_by(...) and the return.
SortReturn ==
    /\ fn_pc = "joining"
    /\ fn_out.to_check = {}
    /\ fn_pc' = "returned"
    /\ fn_out' = [fn_out EXCEPT !.repos = sort_repos(fn_out.repos)]
    /\ UNCHANGED <<fn_in, actVars, scanVars, loopVars>>

NextSort ==
    \/ SortPartition
    \/ \E p \in SortPaths : SortJoinNext(p)
    \/ SortReturn

SpecSort == InitSort /\ [][NextSort]_vars

\* The urgency of the claim: 3 when uncommitted > 0 and unpushed > 0, 2 when
\* only uncommitted > 0, 1 when only unpushed > 0, 0 otherwise.
StatedUrgency(st) ==
    CASE st.uncommitted_count > 0 /\ st.unpushed_count > 0 -> 3
      [] st.uncommitted_count > 0 /\ st.unpushed_count = 0 -> 2
      [] st.uncommitted_count = 0 /\ st.unpushed_count > 0 -> 1
      [] OTHER -> 0

\* C15: the list scan_all returns holds every repository found once and is
\* sorted by urgency descending, then name ascending, whatever the mix of
\* cache hits and probes and whatever the order of the joins.
C15_SortedByUrgencyThenName ==
    fn_pc = "returned" =>
        /\ Len(fn_out.repos) = Len(SortFoundPaths)
        /\ {fn_out.repos[k].path : k \in DOMAIN fn_out.repos} = SortPaths
        /\ \A i, j \in DOMAIN fn_out.repos :
            i < j =>
                LET a == fn_out.repos[i]
                    b == fn_out.repos[j]
                IN  \/ StatedUrgency(a.status) > StatedUrgency(b.status)
                    \/ /\ StatedUrgency(a.status) = StatedUrgency(b.status)
                       /\ name_index(a.name) <= name_index(b.name)

\* One cache hit, three probes joined in the reverse of the final order, all
\* four urgencies present.
C15_Witness ==
    /\ fn_pc = "returned"
    /\ fn_in.hits = {"/w/beta"}
    /\ fn_out.joined = <<"/w/alpha", "/x/alpha", "/w/Zeta">>
    /\ [k \in 1..4 |-> fn_out.repos[k].path] = <<"/w/Zeta", "/x/alpha", "/w/beta", "/w/alpha">>
    /\ [k \in 1..4 |-> urgency(fn_out.repos[k].status)] = <<3, 2, 1, 0>>

(***************************************************************************)
(* collectors/ai_mcp.rs: the memoized live provider query.  Threads call   *)
(* collect_provider_usage; the clock `now` is both Utc::now() in seconds   *)
(* and Instant::now().                                                     *)
(***************************************************************************)
Providers == {"Claude", "OpenAi"}

\* AGENTPULSE_PROVIDER_CACHE_SECS as set in the environment of the model.
ProviderCacheSecs == 2

\* AGENTPULSE_COST_LOOKBACK_DAYS as set in the environment: 0 is month-to-date.
LookbackDays == 0

\* The start of the current month and the length of a day, in seconds from
\* the first instant of the model.
MonthStart == 0 - 1000
DaySecs == 86400

\* report_window at the instant t.
report_window(t) ==
    [start_epoch_secs |-> IF LookbackDays > 0 THEN t - LookbackDays * DaySecs
                          ELSE MonthStart,
     end_epoch_secs |-> t,
     label |-> IF LookbackDays > 0 THEN "last days" ELSE "month-to-date"]

\* format!("{}:{}", window.start_epoch_secs, window.end_epoch_secs)
window_key(window) == <<window.start_epoch_secs, ":", window.end_epoch_secs>>

LiveResults == {"data", "error"}

MaxCallers == 2
MaxFetches == 2
MaxClock == 2
CallerIds == 1..MaxCallers

IdleCaller == [pc |-> "idle"]

InitProviderCache ==
    /\ PureIdle
    /\ ActIdle
    /\ fs = <<>> /\ scan_seq = 0 /\ scan_tasks = <<>> /\ batch = None
    /\ current_cache = <<>> /\ cache_ch = <<>> /\ scan_ch = <<>> /\ loop_pc = "idle"
    /\ app = None /\ last_refresh = 0 /\ commands = {}
    /\ now = 0
    /\ provider_cache = [pr \in Providers |-> NoneV]
    /\ callers = [c \in CallerIds |-> IdleCaller]
    /\ fetches = <<>>

ProvUnchanged ==
    UNCHANGED <<pureVars, actVars, fs, scan_seq, scan_tasks, batch, current_cache,
                cache_ch, scan_ch, loop_pc, app, last_refresh, commands>>

\* collect_provider_usage: report_window(), then collect_provider up to its
\* call of fetch_live_data_cached for the provider.
CollectBegin(c, pr) ==
    /\ callers[c].pc = "idle"
    /\ callers' = [callers EXCEPT ![c] =
            [pc |-> "lookup", provider |-> pr, window |-> report_window(now),
             fresh |-> "none"]]
    /\ UNCHANGED <<now, provider_cache, fetches>>
    /\ ProvUnchanged

\* fetch_live_data_cached, the first critical section: the slot is read under
\* the lock; on a hit the memoized result is returned, else the lock is
\* released and the live fetch starts.
CacheLookup(c) ==
    /\ callers[c].pc = "lookup"
    /\ LET entry == provider_cache[callers[c].provider]
           hit == /\ entry # NoneV
                  /\ entry[1].window_key = window_key(callers[c].window)
                  /\ now - entry[1].fetched_at < ProviderCacheSecs
       IN  IF hit
             THEN /\ callers' = [callers EXCEPT ![c] = IdleCaller]
                  /\ UNCHANGED fetches
             ELSE /\ Len(fetches) < MaxFetches
                  /\ callers' = [callers EXCEPT ![c].pc = "fetching"]
                  /\ fetches' = Append(fetches,
                        [provider |-> callers[c].provider,
                         label |-> callers[c].window.label,
                         memo_label |-> IF entry = NoneV THEN NoneV
                                        ELSE Some(entry[1].label),
                         memo_age |-> IF entry = NoneV THEN NoneV
                                      ELSE Some(now - entry[1].fetched_at)])
    /\ UNCHANGED <<now, provider_cache>>
    /\ ProvUnchanged

\* fetch(window) returns.
FetchReturn(c, result) ==
    /\ callers[c].pc = "fetching"
    /\ callers' = [callers EXCEPT ![c].pc = "store", ![c].fresh = result]
    /\ UNCHANGED <<now, provider_cache, fetches>>
    /\ ProvUnchanged

\* The second critical section: the slot is overwritten and fresh is returned.
CacheStore(c) ==
    /\ callers[c].pc = "store"
    /\ provider_cache' = [provider_cache EXCEPT ![callers[c].provider] =
            Some([fetched_at |-> now, window_key |-> window_key(callers[c].window),
                  result |-> callers[c].fresh, label |-> callers[c].window.label])]
    /\ UNCHANGED fetches
    /\ callers' = [callers EXCEPT ![c] = IdleCaller]
    /\ UNCHANGED now
    /\ ProvUnchanged

\* A second passes.
ClockTick ==
    /\ now < MaxClock
    /\ now' = now + 1
    /\ UNCHANGED provVars
    /\ ProvUnchanged

NextProviderCache ==
    \/ \E c \in CallerIds, pr \in Providers : CollectBegin(c, pr)
    \/ \E c \in CallerIds : CacheLookup(c)
    \/ \E c \in CallerIds, result \in LiveResults : FetchReturn(c, result)
    \/ \E c \in CallerIds : CacheStore(c)
    \/ ClockTick

SpecProviderCache == InitProviderCache /\ [][NextProviderCache]_vars

\* C16: a live fetch is started for a provider only when no result for the
\* same reporting window is memoized or the memoized one is at least TTL old:
\* collecting again less than TTL after a live fetch makes no new API call.
C16_MemoizedWithinTtl ==
    \A j \in DOMAIN fetches :
        \/ fetches[j].memo_age = NoneV
        \/ fetches[j].memo_label[1] # fetches[j].label
        \/ fetches[j].memo_age[1] >= ProviderCacheSecs

\* C17: at most one live fetch for a provider is in progress at a time.
C17_OneLiveFetchPerProvider ==
    \A c, d \in CallerIds :
        (c # d /\ callers[c].pc = "fetching" /\ callers[d].pc = "fetching")
            => callers[c].provider # callers[d].provider

(***************************************************************************)
(* collectors/ai_mcp.rs: collect_provider.  An environment variable is     *)
(* unset, set to something that is not Unicode, set to a blank string, or  *)
(* set to a value.                                                         *)
(***************************************************************************)
ProviderKinds == {"Claude", "Gemini", "OpenAi"}

EnvStates == {"unset", "not_unicode", "blank", "value"}

\* The env_keys collect_provider_usage passes for the provider.
env_keys(provider) ==
    CASE provider = "Claude" -> <<"ANTHROPIC_ADMIN_API_KEY", "ANTHROPIC_API_KEY">>
      [] provider = "Gemini" ->
            <<"GEMINI_API_KEY", "GOOGLE_API_KEY", "AGENTPULSE_GEMINI_BQ_TABLE">>
      [] provider = "OpenAi" -> <<"OPENAI_ADMIN_KEY", "OPENAI_API_KEY">>

\* The variables the live fetch of the provider reads its key or table from.
live_keys(provider) ==
    CASE provider = "Claude" -> <<"ANTHROPIC_ADMIN_API_KEY", "ANTHROPIC_API_KEY">>
      [] provider = "Gemini" -> <<"AGENTPULSE_GEMINI_BQ_TABLE">>
      [] provider = "OpenAi" -> <<"OPENAI_ADMIN_KEY", "OPENAI_API_KEY">>

\* std::env::var(key).is_ok()
env_var_is_ok(env, key) == env[key] \in {"blank", "value"}

\* first_env_value(keys).is_some(), and the same test on the Gemini table:
\* some variable is set to a string that is not empty after trim.
first_env_value_is_some(env, keys) == \E k \in DOMAIN keys : env[keys[k]] = "value"

\* A live fetch that queries the API without a key.
fetch_live_data_without_key(provider, env, api) == api

\* fetch_claude_live_data, fetch_gemini_live_data, fetch_openai_live_data:
\* Ok(None) without a key or table, else what the query yields (api), an
\* unsafe table name counting as an error.  fetch_live_data_cached returns
\* this or a result memoized from an earlier call in the same environment.
fetch_live_data(provider, env, api) ==
    IF first_env_value_is_some(env, live_keys(provider)) THEN api ELSE "none"

\* has_local_data after the scan of the log files: some file parses as JSON
\* as a whole or line by line.
logs_have_data(in) == in.roots_exist /\ in.logs \in {"json", "jsonl"}

\* collect_provider: configured and data_source of the ProviderUsage.
collect_provider(in) ==
    LET by_env == \E k \in DOMAIN env_keys(in.provider) :
                        env_var_is_ok(in.env, env_keys(in.provider)[k])
        supplementary == in.provider \in {"Claude", "OpenAi"} /\ in.supplementary
        configured == by_env \/ in.roots_exist \/ supplementary
        has_local_data == logs_have_data(in) \/ supplementary
        local_source == IF ~configured THEN "unconfigured"
                        ELSE IF has_local_data THEN "local_logs"
                        ELSE "heuristic"
        live == fetch_live_data(in.provider, in.env, in.api)
    IN  [provider |-> in.provider,
         configured |-> configured,
         data_source |-> IF live = "data" THEN "live" ELSE local_source,
         live |-> live]

(***************************************************************************)
(* SpecCollectProvider: collect_provider on every environment.             *)
(***************************************************************************)
CollectInputs ==
    UNION {[provider : {pr},
            env : [{env_keys(pr)[k] : k \in DOMAIN env_keys(pr)} -> EnvStates],
            roots_exist : BOOLEAN,
            logs : {"no_files", "blank", "json", "jsonl", "garbage"},
            supplementary : BOOLEAN,
            api : {"data", "none", "error"}] : pr \in ProviderKinds}

InitCollectProvider ==
    /\ ActIdle
    /\ ScanIdle
    /\ LoopIdle
    /\ fn_pc = "input"
    /\ fn_in \in CollectInputs
    /\ fn_out = None

CallCollectProvider ==
    /\ fn_pc = "input"
    /\ fn_pc' = "done"
    /\ fn_out' = collect_provider(fn_in)
    /\ UNCHANGED <<fn_in, actVars, scanVars, loopVars>>

NextCollectProvider == CallCollectProvider

SpecCollectProvider == InitCollectProvider /\ [][NextCollectProvider]_vars

\* C18: every ProviderUsage returned has data_source = "unconfigured" iff
\* configured = false.
C18_UnconfiguredIffNotConfigured ==
    fn_pc = "done" => (fn_out.data_source = "unconfigured" <=> ~fn_out.configured)

\* The only key is set but blank, nothing else is there: configured without
\* a usable key, so no live data, and the source is the heuristic.
C18_Witness ==
    /\ fn_pc = "done"
    /\ fn_in.provider = "OpenAi"
    /\ fn_in.env = [k \in {"OPENAI_ADMIN_KEY", "OPENAI_API_KEY"} |->
                        IF k = "OPENAI_API_KEY" THEN "blank" ELSE "unset"]
    /\ ~fn_in.roots_exist /\ ~fn_in.supplementary
    /\ fn_in.api = "data"
    /\ fn_out.configured
    /\ fn_out.live = "none"
    /\ fn_out.data_source = "heuristic"

(***************************************************************************)
(* dashboard/builder.rs: dedupe_alerts.  A string is the sequence of its   *)
(* pieces, "|" being one of them.                                          *)
(***************************************************************************)
MaxAlerts == 3

Alerts ==
    [severity : {<<"warn">>, <<"info">>},
     title : {<<"a">>, <<"a", "|", "b">>},
     detail : {<<"c">>, <<"b", "|", "c">>},
     repo : {NoneV, Some(<<>>), Some(<<"r">>)}]

\* format!("{}|{}|{}|{}", severity, title, detail, repo.as_deref().unwrap_or_default())
alert_key(alert) ==
    alert.severity \o <<"|">> \o alert.title \o <<"|">> \o alert.detail \o <<"|">>
        \o unwrap_or(alert.repo, <<>>)

\* A dedupe that drops an alert only when it repeats the one before it.
RECURSIVE retain_unlike_previous(_, _)
retain_unlike_previous(alerts, seen) ==
    IF alerts = <<>> THEN <<>>
    ELSE IF alert_key(Head(alerts)) \in seen
        THEN retain_unlike_previous(Tail(alerts), seen)
    ELSE <<Head(alerts)>> \o retain_unlike_previous(Tail(alerts), {alert_key(Head(alerts))})

\* alerts.retain(|alert| seen.insert(key)): an alert stays iff its key was not
\* seen before.
RECURSIVE retain_unseen(_, _)
retain_unseen(alerts, seen) ==
    IF alerts = <<>> THEN <<>>
    ELSE IF alert_key(Head(alerts)) \in seen THEN retain_unseen(Tail(alerts), seen)
    ELSE <<Head(alerts)>>
            \o retain_unseen(Tail(alerts), seen \cup {alert_key(Head(alerts))})

dedupe_alerts(alerts) == retain_unseen(alerts, {})

(***************************************************************************)
(* SpecDedupe: dedupe_alerts on every alert list of the bounded set.       *)
(***************************************************************************)
InitDedupe ==
    /\ ActIdle
    /\ ScanIdle
    /\ LoopIdle
    /\ fn_pc = "input"
    /\ fn_in \in UNION {[1..n -> Alerts] : n \in 0..MaxAlerts}
    /\ fn_out = None

CallDedupe ==
    /\ fn_pc = "input"
    /\ fn_pc' = "done"
    /\ fn_out' = dedupe_alerts(fn_in)
    /\ UNCHANGED <<fn_in, actVars, scanVars, loopVars>>

NextDedupe == CallDedupe

SpecDedupe == InitDedupe /\ [][NextDedupe]_vars

\* C19: after dedupe_alerts the number of distinct (severity, title, detail,
\* repo) keys in the list equals its length.
C19_DistinctKeys ==
    fn_pc = "done" =>
        Cardinality({<<fn_out[k].severity, fn_out[k].title, fn_out[k].detail,
                       fn_out[k].repo>> : k \in DOMAIN fn_out}) = Len(fn_out)

\* An alert, another one, and the first again: the repeat is dropped.
C19_Witness ==
    /\ fn_pc = "done"
    /\ Len(fn_in) = 3
    /\ fn_in[1] = fn_in[3]
    /\ alert_key(fn_in[1]) # alert_key(fn_in[2])
    /\ fn_out = <<fn_in[1], fn_in[2]>>

\* C30: dedupe_alerts removes an alert only when an earlier alert of the list
\* has the same (severity, title, detail, repo) tuple: alerts whose tuples
\* differ are both kept, the first occurrence of each tuple is the one kept,
\* and the kept alerts stay in their order.  The result is the list of the
\* first occurrences, in the order of the input.
C30_OnlyEqualTuplesRemoved ==
    fn_pc = "done" =>
        LET first == {k \in DOMAIN fn_in : \A j \in 1..(k - 1) : fn_in[j] # fn_in[k]}
            nth(i) == CHOOSE k \in first : Cardinality({j \in first : j <= k}) = i
        IN  /\ Len(fn_out) = Cardinality(first)
            /\ \A i \in DOMAIN fn_out : fn_out[i] = fn_in[nth(i)]

(***************************************************************************)
(* The places that count or flag actionable repositories: build_snapshot   *)
(* (dashboard/builder.rs) and the one-shot modes of main (main.rs).  A     *)
(* scanned repository is given by its status.                              *)
(***************************************************************************)
MaxListed == 2

\* build_snapshot: OverviewMetrics.actionable_repos
overview_actionable_repos(repos) ==
    Cardinality({k \in DOMAIN repos : repo_needs_attention(repos[k])})

\* main with --summary: the count printed and the exit code.
summary_mode(repos) ==
    LET actionable == Cardinality({k \in DOMAIN repos : agent_needs_attention(repos[k])})
    IN  [actionable |-> actionable, exit |-> IF actionable > 0 THEN 1 ELSE 0]

\* main with --once, --agent-brief or --agent-json: the exit code.
once_exit_code(repos) ==
    IF \E k \in DOMAIN repos : agent_needs_attention(repos[k]) THEN 1 ELSE 0

\* print_agent_brief and print_agent_json: the actionable count, taken over
\* sorted_recommendations(repos).
agent_output_actionable(repos) ==
    Cardinality({k \in DOMAIN repos : recommend(repos[k]).priority # "Idle"})

\* print_json: the needs_attention flag of each repository.
print_json_flags(repos) == [k \in DOMAIN repos |-> repo_needs_attention(repos[k])]

InitActionable ==
    /\ ActIdle
    /\ ScanIdle
    /\ LoopIdle
    /\ fn_pc = "input"
    /\ fn_in \in UNION {[1..n -> RepoStatus] : n \in 1..MaxListed}
    /\ fn_out = None

CallActionable ==
    /\ fn_pc = "input"
    /\ fn_pc' = "done"
    /\ fn_out' = [overview |-> overview_actionable_repos(fn_in),
                  summary |-> summary_mode(fn_in),
                  once_exit |-> once_exit_code(fn_in),
                  agent |-> agent_output_actionable(fn_in),
                  json_flags |-> print_json_flags(fn_in)]
    /\ UNCHANGED <<fn_in, actVars, scanVars, loopVars>>

NextActionable == CallActionable

SpecActionable == InitActionable /\ [][NextActionable]_vars

\* C20: a repository is actionable iff its recommendation is not Idle, and
\* the overview count, the exit codes, the agent count and the per-repo
\* flag of --once --json all follow that predicate.
C20_OneActionablePredicate ==
    fn_pc = "done" =>
        LET actionable == {k \in DOMAIN fn_in : recommend(fn_in[k]).priority # "Idle"}
            n == Cardinality(actionable)
        IN  /\ fn_out.overview = n
            /\ fn_out.summary.actionable = n
            /\ fn_out.summary.exit = 1 <=> n > 0
            /\ fn_out.once_exit = 1 <=> n > 0
            /\ fn_out.agent = n
            /\ \A k \in DOMAIN fn_in : fn_out.json_flags[k] <=> k \in actionable

(***************************************************************************)
(* collectors/ai_mcp.rs: the paged walks of fetch_openai_live_data and     *)
(* fetch_claude_live_data, with an API key present.  Each fetch walks two  *)
(* endpoints (usage, then cost) with the same loop; the server answers     *)
(* each request as it likes.  fn_in is the provider and the value of       *)
(* AGENTPULSE_PROVIDER_MAX_PAGES, a string of characters or unset; fn_out  *)
(* holds the locals of the fetch and the answers each walk got.            *)
(***************************************************************************)
\* read_env_usize("AGENTPULSE_PROVIDER_MAX_PAGES", 6): the default.
DefaultMaxPages == 6

Digits == <<"0", "1", "2", "3", "4", "5", "6", "7", "8", "9">>

is_digit(ch) == \E d \in DOMAIN Digits : Digits[d] = ch

digit_value(ch) == (CHOOSE d \in DOMAIN Digits : Digits[d] = ch) - 1

RECURSIVE digits_value(_)
digits_value(str) ==
    IF str = <<>> THEN 0
    ELSE 10 * digits_value(SubSeq(str, 1, Len(str) - 1)) + digit_value(str[Len(str)])

\* str::parse::<usize>: an optional "+", then one or more digits and nothing
\* else; None for anything else.
parse_usize(str) ==
    LET body == IF str # <<>> /\ str[1] = "+" THEN Tail(str) ELSE str
    IN  IF body # <<>> /\ \A k \in DOMAIN body : is_digit(body[k])
            THEN Some(digits_value(body))
        ELSE NoneV

\* read_env_usize keeping a parsed zero.
read_env_usize_zero_kept(value, default_value) ==
    IF value = NoneV THEN default_value
    ELSE IF parse_usize(value[1]) = NoneV THEN default_value
    ELSE parse_usize(value[1])[1]

\* read_env_usize(key, default_value), value being std::env::var(key).ok():
\* the parsed number if it is > 0, else the default.
read_env_usize(value, default_value) ==
    IF value = NoneV THEN default_value
    ELSE IF parse_usize(value[1]) = NoneV THEN default_value
    ELSE IF parse_usize(value[1])[1] > 0 THEN parse_usize(value[1])[1]
    ELSE default_value

\* The page cap tested after the request instead of counting it.
page_cap_reached_late(pages, max_pages) == pages > max_pages

\* `pages >= read_env_usize(..)`, tested after `pages += 1`.
page_cap_reached(pages, max_pages) == pages >= max_pages

\* The values of AGENTPULSE_PROVIDER_MAX_PAGES tried.
MaxPagesEnv ==
    {NoneV, Some(<<>>), Some(<<"0">>), Some(<<"0", "0">>), Some(<<"1">>), Some(<<"2">>),
     Some(<<"0", "3">>), Some(<<"+", "2">>), Some(<<"-", "1">>), Some(<<" ", "2">>),
     Some(<<"a">>), Some(<<"7">>)}

\* What http_get_json returns: Err, or a JSON value whose has_more is a
\* boolean or missing and whose next_page is a string or missing.
RequestError == [error |-> TRUE, has_more |-> NoneV, next_page |-> NoneV]

Responses ==
    {RequestError} \cup
    [error : {FALSE}, has_more : {NoneV, Some(TRUE), Some(FALSE)},
     next_page : {NoneV, Some("cursor")}]

InitPagedWalk ==
    /\ ActIdle
    /\ ScanIdle
    /\ LoopIdle
    /\ fn_pc = "loop"
    /\ fn_in \in [provider : {"OpenAi", "Claude"}, max_pages : MaxPagesEnv]
    /\ fn_out = [endpoint |-> 1, pages |-> 0, page |-> NoneV,
                 walks |-> << <<>>, <<>> >>, result |-> NoneV]

\* One turn of the loop: http_get_json(..)?, accumulate, pages += 1, the three
\* breaks.  After the break of the first loop the second starts with fresh
\* page and pages; after the break of the second the fetch returns Ok.
WalkRequest(resp) ==
    /\ fn_pc = "loop"
    /\ LET got == [fn_out EXCEPT !.walks[fn_out.endpoint] = Append(@, resp)]
           pages == fn_out.pages + 1
           has_more == IF resp.has_more = NoneV THEN FALSE ELSE resp.has_more[1]
           stop == \/ page_cap_reached(pages, read_env_usize(fn_in.max_pages, DefaultMaxPages))
                   \/ ~has_more
                   \/ resp.next_page = NoneV
       IN  IF resp.error
             THEN /\ fn_pc' = "done"
                  /\ fn_out' = [got EXCEPT !.result = Some("Err")]
           ELSE IF ~stop
             THEN /\ fn_pc' = "loop"
                  /\ fn_out' = [got EXCEPT !.pages = pages, !.page = resp.next_page]
           ELSE IF fn_out.endpoint = 1
             THEN /\ fn_pc' = "loop"
                  /\ fn_out' = [got EXCEPT !.endpoint = 2, !.pages = 0, !.page = NoneV]
           ELSE /\ fn_pc' = "done"
                /\ fn_out' = [got EXCEPT !.pages = pages, !.result = Some("Ok")]
    /\ UNCHANGED <<fn_in, actVars, scanVars, loopVars>>

NextPagedWalk == \E resp \in Responses : WalkRequest(resp)

\* curl runs with --max-time: every request returns.
SpecPagedWalk ==
    InitPagedWalk /\ [][NextPagedWalk]_vars /\ WF_vars(NextPagedWalk)

\* max_pages as stated: the number in the variable, 6 when it is unset, zero
\* or not a number.
StatedMaxPages(value) ==
    CASE value = Some(<<"1">>) -> 1
      [] value \in {Some(<<"2">>), Some(<<"+", "2">>)} -> 2
      [] value = Some(<<"0", "3">>) -> 3
      [] value = Some(<<"7">>) -> 7
      [] OTHER -> 6

\* The walk of endpoint e has ended.
WalkEnded(e) == fn_pc = "done" \/ fn_out.endpoint > e

LastPageOrError(resp) ==
    resp.error \/ resp.has_more # Some(TRUE) \/ resp.next_page = NoneV

WalkWithinStatedLimits ==
    \A e \in 1..2 :
        LET w == fn_out.walks[e]
        IN  /\ Len(w) <= StatedMaxPages(fn_in.max_pages)
            /\ \A k \in 1..(Len(w) - 1) : ~LastPageOrError(w[k])
            /\ (WalkEnded(e) /\ w # <<>>) =>
                    \/ LastPageOrError(w[Len(w)])
                    \/ Len(w) = StatedMaxPages(fn_in.max_pages)
            /\ (fn_pc = "done" /\ fn_out.result = Some("Ok")) => Len(w) >= 1
            /\ (fn_pc = "done" /\ e = 1) => Len(w) >= 1

\* C25: each paged endpoint walk terminates, with at least 1 and at most
\* max_pages requests (AGENTPULSE_PROVIDER_MAX_PAGES; 6 when unset, zero or
\* unparsable), and stops at the first page with has_more = false or without
\* next_page, or at the first request error, whatever the server answers.
C25_WalkTerminatesWithinCap ==
    /\ []WalkWithinStatedLimits
    /\ <>(fn_pc = "done")

\* The variable holds "0": the cost walk ran to the default cap, six pages
\* that each announced more.
C25_Witness ==
    /\ fn_pc = "done"
    /\ fn_in.max_pages = Some(<<"0">>)
    /\ fn_out.result = Some("Ok")
    /\ Len(fn_out.walks[2]) = 6
    /\ ~LastPageOrError(fn_out.walks[2][6])

(***************************************************************************)
(* SpecScanAll: which repositories the list of scan_all holds.  The paths  *)
(* found pass the ignored_repos filter, each remaining path is a cache hit *)
(* or is probed, and each probe task is joined with its outcome: the       *)
(* status, an error of check_repo_status, or a JoinError (the task         *)
(* panicked or was cancelled).                                             *)
(***************************************************************************)
\* config.ignored_repos: names, compared with the basename of the path.
IgnoredChoices == SUBSET {"alpha", "beta"}

\* How a probe task ends.
JoinOutcomes == {"status", "probe_error", "join_error"}

\* The ignored_repos filter of scan_all.
not_ignored(found, ignored) == SelectSeq(found, LAMBDA p : file_name(p) \notin ignored)

\* The status of a probed repository.
ProbedStatus == [RepoStatusDefault EXCEPT !.branch = "main", !.uncommitted_count = 1]

\* The status of a repository served from the cache.
CachedStatus == [RepoStatusDefault EXCEPT !.branch = "main"]

InitScanAll ==
    /\ ActIdle
    /\ ScanIdle
    /\ LoopIdle
    /\ fn_pc = "input"
    /\ fn_in \in [ignored : IgnoredChoices, hits : SUBSET SortPaths]
    /\ fn_out = [paths |-> <<>>, repos |-> <<>>, to_check |-> {}, joined |-> <<>>]

\* The filter and the partition loop: a cache hit is pushed with the cached
\* status, every other path goes to to_check.
ScanAllPartition ==
    /\ fn_pc = "input"
    /\ fn_pc' = "joining"
    /\ LET paths == not_ignored(SortFoundPaths, fn_in.ignored)
           hits == SelectSeq(paths, LAMBDA p : p \in fn_in.hits)
       IN  fn_out' = [paths |-> paths,
                      repos |-> [k \in 1..Len(hits) |-> Repo(hits[k], CachedStatus)],
                      to_check |-> {paths[k] : k \in DOMAIN paths} \ fn_in.hits,
                      joined |-> <<>>]
    /\ UNCHANGED <<fn_in, actVars, scanVars, loopVars>>

\* set.join_next() returns the task of p.  Ok((path, repo)): the repo is
\* pushed, with the default status when check_repo_status failed.  Err (a
\* JoinError): nothing is pushed.
ScanAllJoinNext(p, outcome) ==
    /\ fn_pc = "joining"
    /\ p \in fn_out.to_check
    /\ fn_out' = [fn_out EXCEPT
            !.repos = CASE outcome = "status" -> Append(@, Repo(p, ProbedStatus))
                        [] outcome = "probe_error" -> Append(@, Repo(p, RepoStatusDefault))
                        [] outcome = "join_error" -> @,
            !.to_check = @ \ {p},
            !.joined = Append(@, <<p, outcome>>)]
    /\ UNCHANGED <<fn_pc, fn_in, actVars, scanVars, loopVars>>

\* repos.sort_by(...) and the return.
ScanAllReturn ==
    /\ fn_pc = "joining"
    /\ fn_out.to_check = {}
    /\ fn_pc' = "returned"
    /\ fn_out' = [fn_out EXCEPT !.repos = sort_repos(fn_out.repos)]
    /\ UNCHANGED <<fn_in, actVars, scanVars, loopVars>>

NextScanAll ==
    \/ ScanAllPartition
    \/ \E p \in SortPaths, outcome \in JoinOutcomes : ScanAllJoinNext(p, outcome)
    \/ ScanAllReturn

SpecScanAll == InitScanAll /\ [][NextScanAll]_vars

\* C26: scan_all returns exactly one Repo for every path found whose basename
\* is not in ignored_repos and none for an ignored basename; every such path
\* is a cache hit or probed, never both and never neither; a path whose probe
\* failed or whose probe task did not complete normally is in the list once.
C26_OneRepoPerPath ==
    fn_pc = "returned" =>
        LET wanted == {p \in SortPaths : file_name(p) \notin fn_in.ignored}
            probed == {fn_out.joined[k][1] : k \in DOMAIN fn_out.joined}
        IN  /\ \A p \in wanted :
                Cardinality({k \in DOMAIN fn_out.repos : fn_out.repos[k].path = p}) = 1
            /\ \A k \in DOMAIN fn_out.repos : fn_out.repos[k].path \in wanted
            /\ \A p \in wanted : (p \in fn_in.hits) # (p \in probed)
            /\ Len(fn_out.joined) = Cardinality(probed)

(***************************************************************************)
(* SpecSelection: the selection of the App under the operations that move  *)
(* it or change the rows under it: the keys of handle_key, the section     *)
(* changes of App, and the replacement of the repo list by event_loop.     *)
(***************************************************************************)
\* The keys that reach the selection, the filter or the toggles.
SelectionKeys == {"j", "k", "/", "a", "g", "w", "Backspace", "Enter", "Esc"}

\* The repo lists a scan returns: up to MaxListed repositories, each clean
\* (recommendation Idle) or with local changes.
ScannedStatuses ==
    {[RepoStatusDefault EXCEPT !.branch = "main", !.has_remote = TRUE,
                               !.uncommitted_count = u] : u \in 0..1}

ScanResults ==
    UNION {[1..n -> {Repo(RepoPath, st) : st \in ScannedStatuses}] : n \in 0..MaxListed}

InitSelection ==
    /\ PureIdle
    /\ ActIdle
    /\ ScanIdle
    /\ ProvIdle
    /\ current_cache = <<>> /\ cache_ch = <<>> /\ scan_ch = <<>> /\ loop_pc = "idle"
    /\ last_refresh = 0 /\ commands = {}
    /\ app = NewApp(2)

SelectionUnchanged ==
    UNCHANGED <<pureVars, actVars, scanVars, current_cache, cache_ch, scan_ch, loop_pc,
                last_refresh, commands, provVars>>

\* handle_key on a key read by the event loop.
SelectionKey(key) ==
    /\ key = "w" => app.mode = "Search"
    /\ (app.mode = "Search" /\ key \notin {"Enter", "Esc", "Backspace"}) =>
            Len(app.filter_text) < MaxText
    /\ app' = handle_key(app, key).app
    /\ SelectionUnchanged

\* App::next_section
SelectionNextSection ==
    /\ app.mode = "Normal"
    /\ app' = next_section(app)
    /\ SelectionUnchanged

\* App::previous_section
SelectionPreviousSection ==
    /\ app.mode = "Normal"
    /\ app' = previous_section(app)
    /\ SelectionUnchanged

\* event_loop: `if let Ok(repos) = scan_rx.try_recv()`
SelectionScanResult(repos) ==
    /\ app' = [app EXCEPT !.repos = repos, !.is_scanning = FALSE]
    /\ SelectionUnchanged

NextSelection ==
    \/ \E key \in SelectionKeys : SelectionKey(key)
    \/ SelectionNextSection
    \/ SelectionPreviousSection
    \/ \E repos \in ScanResults : SelectionScanResult(repos)

SpecSelection == InitSelection /\ [][NextSelection]_vars

\* C29: after any sequence of key events, filter edits, toggles, section
\* changes and scan-result replacements the selection is a valid row of the
\* active section: selected < active_row_count() when the section has rows,
\* selected = 0 when it has none.
C29_SelectionValid ==
    IF active_row_count(app) = 0 THEN app.selected = 0
    ELSE app.selected < active_row_count(app)

====
